---- MODULE Spec2Model ----
(***************************************************************************)
(* Usage cache engine (scripts/utils/api-client.ts as bundled in           *)
(* dist/index.js) and session state store (scripts/utils/session.ts) of    *)
(* claude-dashboard.                                                       *)
(*                                                                         *)
(* One action is one run-to-completion segment of an async function: the   *)
(* code between two awaits, together with the I/O the await waited for.    *)
(* Where the result of a read is consumed in a later segment than the one  *)
(* in which the read happened, the read and its continuation are separate  *)
(* actions.  Time is Date.now() in milliseconds.                           *)
(***************************************************************************)
EXTENDS Integers, Sequences, FiniteSets, TLC

(***************************************************************************)
(* Bounds of the model                                                     *)
(***************************************************************************)
MaxTicks == 2
MaxProcs == 2
MaxIdLen == 3
MaxResolves == 2

(***************************************************************************)
(* Program constants                                                       *)
(***************************************************************************)
DEFAULT_TTL_SECONDS == 60
CACHE_MAX_AGE_SECONDS == 3600
CLEANUP_INTERVAL_MS == 3600000
FALLBACK_TTL_FACTOR == 10
SESSION_MAX_AGE_SECONDS == 86400
TOKEN_REFRESH_BUFFER_MS == 300000
PROJECT_ID_CACHE_TTL_MS == 300000

\* Date.now() of the first modelled instant; any real clock is far past the
\* first cleanup interval, so lastCleanupTime = 0 never throttles a first call
StartTime == 2 * CLEANUP_INTERVAL_MS

\* a clock advance of half a TTL
ShortStep == (DEFAULT_TTL_SECONDS * 1000) \div 2

Calls == {"A", "B"}
Tokens == {"t1", "t2"}
\* the accounts the user is signed in to during a run
SignedIn == {"t1"}
NoToken == "none"
NoHash == ""

HASH_LENGTH == 16

(***************************************************************************)
(* hashToken (scripts/utils/hash.ts): SHA-256 of the UTF-8 bytes of the    *)
(* secret (FIPS 180-4), as lowercase hex, its first HASH_LENGTH characters *)
(***************************************************************************)
\* createHash('sha256').update(bytes).digest(): the 8 words of the digest.
\* A 32-bit word is the pair <<high 16 bits, low 16 bits>>.
Sha256(bytes) ==
  LET Half == 2 ^ 16

      RECURSIVE Xor16(_, _, _)
      Xor16(a, b, n) ==
        IF n = 0 THEN 0
        ELSE ((a + b) % 2) + 2 * Xor16(a \div 2, b \div 2, n - 1)

      RECURSIVE And16(_, _, _)
      And16(a, b, n) ==
        IF n = 0 THEN 0
        ELSE ((a % 2) * (b % 2)) + 2 * And16(a \div 2, b \div 2, n - 1)

      XorW(x, y) == <<Xor16(x[1], y[1], 16), Xor16(x[2], y[2], 16)>>
      AndW(x, y) == <<And16(x[1], y[1], 16), And16(x[2], y[2], 16)>>
      NotW(x) == <<Half - 1 - x[1], Half - 1 - x[2]>>

      \* addition modulo 2^32
      AddW(x, y) ==
        LET lo == x[2] + y[2]
            hi == x[1] + y[1] + (lo \div Half)
        IN <<hi % Half, lo % Half>>

      \* rotation to the right by 0 < n < 16 bits
      RotrSmall(x, n) ==
        <<(x[1] \div 2 ^ n) + (x[2] % 2 ^ n) * 2 ^ (16 - n),
          (x[2] \div 2 ^ n) + (x[1] % 2 ^ n) * 2 ^ (16 - n)>>

      Rotr(x, n) ==
        IF n < 16 THEN RotrSmall(x, n)
        ELSE IF n = 16 THEN <<x[2], x[1]>>
        ELSE RotrSmall(<<x[2], x[1]>>, n - 16)

      \* shift to the right by 0 < n < 16 bits
      Shr(x, n) ==
        <<x[1] \div 2 ^ n, (x[2] \div 2 ^ n) + (x[1] % 2 ^ n) * 2 ^ (16 - n)>>

      Ch(x, y, z) == XorW(AndW(x, y), AndW(NotW(x), z))
      Maj(x, y, z) == XorW(XorW(AndW(x, y), AndW(x, z)), AndW(y, z))
      BigSigma0(x) == XorW(XorW(Rotr(x, 2), Rotr(x, 13)), Rotr(x, 22))
      BigSigma1(x) == XorW(XorW(Rotr(x, 6), Rotr(x, 11)), Rotr(x, 25))
      SmallSigma0(x) == XorW(XorW(Rotr(x, 7), Rotr(x, 18)), Shr(x, 3))
      SmallSigma1(x) == XorW(XorW(Rotr(x, 17), Rotr(x, 19)), Shr(x, 10))

      InitialHash ==
        <<<<27145, 58983>>, <<47975, 44677>>, <<15470, 62322>>, <<42319, 62778>>,
          <<20750, 21119>>, <<39685, 26764>>, <<8067, 55723>>, <<23520, 52505>>>>

      RoundConstants ==
        <<<<17034, 12184>>, <<28983, 17553>>, <<46528, 64463>>, <<59829, 56229>>,
          <<14678, 49755>>, <<23025, 4593>>, <<37439, 33444>>, <<43804, 24277>>,
          <<55303, 43672>>, <<4739, 23297>>, <<9265, 34238>>, <<21772, 32195>>,
          <<29374, 23924>>, <<32990, 45566>>, <<39900, 1703>>, <<49563, 61812>>,
          <<58523, 27073>>, <<61374, 18310>>, <<4033, 40390>>, <<9228, 41420>>,
          <<11753, 11375>>, <<19060, 33962>>, <<23728, 43484>>, <<30457, 35034>>,
          <<38974, 20818>>, <<43057, 50797>>, <<45059, 10184>>, <<48985, 32711>>,
          <<50912, 3059>>, <<54695, 37191>>, <<1738, 25425>>, <<5161, 10599>>,
          <<10167, 2693>>, <<11803, 8504>>, <<19756, 28156>>, <<21304, 3347>>,
          <<25866, 29524>>, <<30314, 2747>>, <<33218, 51502>>, <<37490, 11397>>,
          <<41663, 59553>>, <<43034, 26187>>, <<49739, 35696>>, <<51052, 20899>>,
          <<53650, 59417>>, <<54937, 1572>>, <<62478, 13701>>, <<4202, 41072>>,
          <<6564, 49430>>, <<7735, 27656>>, <<10056, 30540>>, <<13488, 48309>>,
          <<14620, 3251>>, <<20184, 43594>>, <<23452, 51791>>, <<26670, 28659>>,
          <<29839, 33518>>, <<30885, 25455>>, <<33992, 30740>>, <<36039, 520>>,
          <<37054, 65530>>, <<42064, 27883>>, <<48889, 41975>>, <<50801, 30962>>>>

      Zeros(n) == [i \in 1..n |-> 0]

      \* the message, the byte 0x80, zero bytes up to 56 modulo 64, and the length
      \* of the message in bits as 8 bytes
      Padded(msg) ==
        LET bits == 8 * Len(msg)
        IN msg \o <<128>> \o Zeros((119 - Len(msg)) % 64)
             \o Zeros(4)
             \o <<(bits \div 2 ^ 24) % 256, (bits \div 2 ^ 16) % 256,
                  (bits \div 2 ^ 8) % 256, bits % 256>>

      \* the 16 words of the block that starts after offset bytes
      BlockWords(padded, offset) ==
        [t \in 1..16 |->
           <<padded[offset + 4 * t - 3] * 256 + padded[offset + 4 * t - 2],
             padded[offset + 4 * t - 1] * 256 + padded[offset + 4 * t]>>]

      RECURSIVE Schedule(_)
      \* the message schedule of 64 words
      Schedule(w) ==
        IF Len(w) = 64 THEN w
        ELSE LET t == Len(w) + 1
             IN Schedule(Append(w,
                  AddW(AddW(SmallSigma1(w[t - 2]), w[t - 7]),
                       AddW(SmallSigma0(w[t - 15]), w[t - 16]))))

      RECURSIVE Rounds(_, _, _)
      \* the rounds t..64 on the working variables v = <<a, b, c, d, e, f, g, h>>
      Rounds(v, w, t) ==
        IF t > 64 THEN v
        ELSE LET t1 == AddW(AddW(AddW(v[8], BigSigma1(v[5])),
                                 AddW(Ch(v[5], v[6], v[7]), RoundConstants[t])),
                            w[t])
                 t2 == AddW(BigSigma0(v[1]), Maj(v[1], v[2], v[3]))
                 next == <<AddW(t1, t2), v[1], v[2], v[3],
                           AddW(v[4], t1), v[5], v[6], v[7]>>
             \* the test has the working variables evaluated round by round
             IN IF Len(next) = 8 THEN Rounds(next, w, t + 1) ELSE next

      Compress(h, words) ==
        LET v == Rounds(h, Schedule(words), 1)
        IN [i \in 1..8 |-> AddW(h[i], v[i])]

      RECURSIVE Blocks(_, _, _)
      Blocks(h, padded, offset) ==
        IF offset >= Len(padded) THEN h
        ELSE Blocks(Compress(h, BlockWords(padded, offset)), padded, offset + 64)
  IN Blocks(InitialHash, Padded(bytes), 0)

HexDigit_Upper(n) ==
  <<"0", "1", "2", "3", "4", "5", "6", "7",
    "8", "9", "A", "B", "C", "D", "E", "F">>[n + 1]

\* a digit of digest('hex')
HexDigit(n) ==
  <<"0", "1", "2", "3", "4", "5", "6", "7",
    "8", "9", "a", "b", "c", "d", "e", "f">>[n + 1]

\* createHash('sha256').update(token).digest('hex').substring(0, HASH_LENGTH)
Fingerprint(secret) ==
  LET Hex16(x) ==
        <<HexDigit(x \div 2 ^ 12), HexDigit((x \div 2 ^ 8) % 16),
          HexDigit((x \div 2 ^ 4) % 16), HexDigit(x % 16)>>
      RECURSIVE HexOf(_, _)
      \* the words of the digest from the i-th on, as hex characters
      HexOf(digest, i) ==
        IF i > Len(digest) THEN <<>>
        ELSE Hex16(digest[i][1]) \o Hex16(digest[i][2]) \o HexOf(digest, i + 1)
      \* the UTF-8 byte of a character of the secrets of the model (all ASCII)
      CharCode(ch) ==
        CASE ch = "!" -> 33
          [] ch = "#" -> 35
          [] ch = "$" -> 36
          [] ch = "%" -> 37
          [] ch = "&" -> 38
          [] ch = "(" -> 40
          [] ch = ")" -> 41
          [] ch = "*" -> 42
          [] ch = "+" -> 43
          [] ch = "," -> 44
          [] ch = "-" -> 45
          [] ch = "." -> 46
          [] ch = "/" -> 47
          [] ch = "1" -> 49
          [] ch = "2" -> 50
          [] ch = "3" -> 51
          [] ch = "4" -> 52
          [] ch = "5" -> 53
          [] ch = ":" -> 58
          [] ch = ";" -> 59
          [] ch = "<" -> 60
          [] ch = "=" -> 61
          [] ch = ">" -> 62
          [] ch = "?" -> 63
          [] ch = "@" -> 64
          [] ch = "[" -> 91
          [] ch = "]" -> 93
          [] ch = "^" -> 94
          [] ch = "_" -> 95
          [] ch = "a" -> 97
          [] ch = "b" -> 98
          [] ch = "e" -> 101
          [] ch = "g" -> 103
          [] ch = "h" -> 104
          [] ch = "k" -> 107
          [] ch = "m" -> 109
          [] ch = "n" -> 110
          [] ch = "o" -> 111
          [] ch = "s" -> 115
          [] ch = "t" -> 116
          [] ch = "u" -> 117
          [] ch = "{" -> 123
          [] ch = "|" -> 124
          [] ch = "}" -> 125
          [] ch = "~" -> 126
      Utf8 == [i \in 1..Len(secret) |-> CharCode(secret[i])]
  IN SubSeq(HexOf(Sha256(Utf8), 1), 1, HASH_LENGTH)

RECURSIVE Joined(_)
\* the string of a sequence of characters
Joined(chs) == IF chs = <<>> THEN "" ELSE Head(chs) \o Joined(Tail(chs))

\* hashToken on the tokens of the model: the values of Fingerprint
hashToken(token) ==
  CASE token = "t1" -> "628b49d96dcde97a"
    [] token = "t2" -> "c44474038d459e40"
    [] token = "g1" -> "711430f6164e9380"
    [] token = "g2" -> "4d2f4b668cfc48e6"
    [] token = "g3" -> "3921871aa0881e3e"


getCacheFilePath_Shared(tokenHash) == <<"cache-", "usage", ".json">>

\* path.join(CACHE_DIR, `cache-${tokenHash}.json`), as the name in CACHE_DIR
getCacheFilePath(tokenHash) == <<"cache-", tokenHash, ".json">>

(***************************************************************************)
(* Values                                                                  *)
(***************************************************************************)
Null == [kind |-> "null"]

\* body of GET /api/oauth/usage for the account of token; the reported usage
\* grows with time
ApiBody(token, ver) ==
  [five_hour |-> [acct |-> token, used |-> ver],
   seven_day |-> [acct |-> "-", used |-> 0],
   seven_day_sonnet |-> [acct |-> "-", used |-> 0],
   extra |-> "x"]

\* const limits = { five_hour: data.five_hour ?? null, ... }
Limits(data) ==
  [kind |-> "limits",
   five_hour |-> data.five_hour,
   seven_day |-> data.seven_day,
   seven_day_sonnet |-> data.seven_day_sonnet]

\* JSON.stringify({ data, timestamp }) and JSON.parse of a cache file
ENOENT == <<"ENOENT">>
ParseOk(raw) == Len(raw) = 5 /\ raw[1] = "{data:" /\ raw[5] = "}"
Parse(raw) == [data |-> raw[2], timestamp |-> raw[4]]

NetOutcomes == {"ok", "non2xx", "timeout", "neterror", "malformed"}

VARIABLES
  now,              \* Date.now()
  ticks,            \* clock advances so far
  procs,            \* processes started so far
  cred,             \* what the credential store yields: a token or NoToken
  account,          \* the account the user is signed in to, as its token
  usageCacheMap,    \* Map tokenHash -> {data, timestamp}
  pendingRequests,  \* Map tokenHash -> call owning the in-flight promise
  lastTokenHash,
  lastCleanupTime,
  cacheDirMode,     \* 0 while CACHE_DIR does not exist, else its mode
  cacheFiles,       \* file name -> [content, mtime, mode], files of CACHE_DIR
  call,             \* per call of fetchUsageLimits: position and locals
  promise,          \* per call: settled value of its requestPromise
  cleanup,          \* the fire-and-forget cleanupExpiredCache task
  saved,            \* history: tokenHash -> record now on disk, as written
  fetched           \* history: tokenHash -> last limits fetched from the API

cacheState == <<cred, account, usageCacheMap, pendingRequests,
                lastTokenHash, lastCleanupTime, cacheDirMode, cacheFiles,
                call, promise, cleanup, saved, fetched>>

VARIABLES
  sess,             \* per process: position and locals of getSessionStartTime
  sessionCache,     \* per process: Map safeSessionId -> startTime
  sessLastCleanup,  \* per process: lastCleanupTime of session.ts
  sessCleanup,      \* per process: the fire-and-forget cleanupExpiredSessions
  sessDirExists,    \* SESSION_DIR exists
  sessFiles,        \* path -> [content, mtime]
  sessFirst,        \* history: path -> first startTime persisted at the path
  sessCallers       \* per process: the further callers of getSessionStartTime

sessionVars == <<sess, sessionCache, sessLastCleanup, sessCleanup,
                 sessDirExists, sessFiles, sessFirst, sessCallers>>

VARIABLE probe     \* the session id under sanitization and its file

VARIABLES
  keychain,               \* credentials of the keychain entry, or Null
  oauthFile,              \* oauth_creds.json: [raw, mtime]
  cachedCredentials,      \* Null or [data, mtime]
  pendingRefreshRequests, \* Map tokenHash -> call owning the refresh promise
  refreshPromise,         \* per call: settled value of its refreshPromise
  res,                    \* per call of getValidCredentials: position, locals
  roundTrips              \* history: POSTs to the token endpoint so far

VARIABLE render   \* the render of this process: position, results, output

VARIABLE fp       \* two calls of hashToken: the secrets, the results

VARIABLES
  kc,             \* per resolver: its call of the OS secret store
  eng             \* per provider: the usage engine of the Codex, Gemini
                  \* and z.ai clients

resolverVars == <<keychain, oauthFile, cachedCredentials,
                  pendingRefreshRequests, refreshPromise, res, roundTrips,
                  kc, eng>>

vars == <<now, ticks, procs, cacheState, sessionVars, probe, resolverVars,
          render, fp>>

Unsettled == [kind |-> "unsettled"]
Rejected == [kind |-> "rejected"]

IdleCall ==
  [pc |-> "idle", token |-> NoToken, tokenHash |-> NoHash, raw |-> ENOENT,
   limits |-> Null, wts |-> 0, joined |-> "", result |-> Null,
   \* fetch has resolved with a response and clearTimeout(timeout) has run
   headers |-> FALSE,
   \* history of this call
   began |-> 0, cold |-> FALSE, overlap |-> FALSE,
   fresh |-> FALSE, prev |-> {}, hadMem |-> Null, lastFetch |-> Null,
   memSeen |-> "-", diskSeen |-> "-", loadedAt |-> 0, src |-> "-",
   retAge |-> 0, netBy |-> 0, outcome |-> "-", threw |-> FALSE,
   active |-> NoToken]

IdleCleanup ==
  [pc |-> "idle", now |-> 0, files |-> {}, cur |-> <<>>,
   \* history: the instants at which a pass started, what the running or
   \* last pass unlinked, whether one of its file operations failed
   scans |-> {}, unlinked |-> {}, failed |-> FALSE]

NoSaved == [h \in {} |-> 0]

(***************************************************************************)
(* Helpers of the cache engine                                             *)
(***************************************************************************)
Fresh_Inclusive(timestamp, ttlSeconds) == now - timestamp <= ttlSeconds * 1000

\* ageSeconds < ttlSeconds, with ageSeconds = (Date.now() - timestamp) / 1000
Fresh(timestamp, ttlSeconds) == now - timestamp < ttlSeconds * 1000

isCacheValid_Millis(tokenHash, ttlSeconds) ==
  /\ tokenHash \in DOMAIN usageCacheMap
  /\ now - usageCacheMap[tokenHash].timestamp < ttlSeconds

isCacheValid(tokenHash, ttlSeconds) ==
  /\ tokenHash \in DOMAIN usageCacheMap
  /\ Fresh(usageCacheMap[tokenHash].timestamp, ttlSeconds)

loadFileCache_Miss(raw, ttlSeconds) == Null

\* the part of loadFileCache after readFile resolved with raw
loadFileCache(raw, ttlSeconds) ==
  IF raw = ENOENT \/ ~ParseOk(raw) THEN Null
  ELSE IF Fresh(Parse(raw).timestamp, ttlSeconds) THEN Parse(raw).data
  ELSE Null

MapSet(map, key, value) ==
  [k \in DOMAIN map \cup {key} |-> IF k = key THEN value ELSE map[k]]

MapDelete(map, key) == [k \in DOMAIN map \ {key} |-> map[k]]

ReadFile(name) ==
  IF name \in DOMAIN cacheFiles THEN cacheFiles[name].content ELSE ENOENT

Active(c) == call[c].pc \notin {"idle", "done"}

(***************************************************************************)
(* fetchUsageLimits                                                        *)
(***************************************************************************)
Return(c, rec, value, src) ==
  [rec EXCEPT !.pc = "done", !.result = value, !.src = src]

FallbackHit_Ttl(tokenHash) == isCacheValid(tokenHash, DEFAULT_TTL_SECONDS)

\* const cached = usageCacheMap.get(lastTokenHash); if (cached) ...
FallbackHit(tokenHash) == tokenHash \in DOMAIN usageCacheMap

\* fetchUsageLimits from its invocation to its first await on the disk tier:
\* getCredentials, the degraded fallback, hashToken, the memory tier
Begin(c) ==
  /\ call[c].pc = "idle"
  /\ LET token == cred
         tokenHash == hashToken(token)
         \* the value the memory tier holds for the last known fingerprint
         HadMem == IF lastTokenHash \in DOMAIN usageCacheMap
                   THEN usageCacheMap[lastTokenHash].data ELSE Null
         rec == [call[c] EXCEPT !.began = now,
                   !.token = token,
                   !.active = account,
                   !.overlap = \E d \in Calls \ {c} : Active(d),
                   !.prev = {d \in Calls : call[d].pc = "done"}]
     IN IF token = NoToken
        THEN /\ UNCHANGED lastTokenHash
             /\ IF lastTokenHash # NoHash
                THEN IF FallbackHit(lastTokenHash)
                     THEN call' = [call EXCEPT ![c] =
                            Return(c, [rec EXCEPT !.tokenHash = lastTokenHash,
                                        !.hadMem = HadMem,
                                        !.retAge = now -
                                          usageCacheMap[lastTokenHash].timestamp],
                                   usageCacheMap[lastTokenHash].data,
                                   "fallback-mem")]
                     ELSE call' = [call EXCEPT ![c] =
                            [rec EXCEPT !.pc = "fbdisk", !.hadMem = HadMem,
                                        !.tokenHash = lastTokenHash]]
                ELSE call' = [call EXCEPT ![c] = Return(c, rec, Null, "none")]
        ELSE /\ lastTokenHash' = tokenHash
             /\ LET rec2 == [rec EXCEPT !.tokenHash = tokenHash,
                               \* what the call finds in the two tiers
                               !.cold =
                                 /\ ~isCacheValid(tokenHash,
                                                  DEFAULT_TTL_SECONDS)
                                 /\ loadFileCache(
                                      ReadFile(getCacheFilePath(tokenHash)),
                                      DEFAULT_TTL_SECONDS) = Null,
                               !.fresh = tokenHash \notin DOMAIN usageCacheMap,
                               !.lastFetch =
                                 IF tokenHash \in DOMAIN fetched
                                 THEN fetched[tokenHash] ELSE Null,
                               !.memSeen =
                                 IF tokenHash \notin DOMAIN usageCacheMap
                                 THEN "absent"
                                 ELSE IF isCacheValid(tokenHash,
                                                      DEFAULT_TTL_SECONDS)
                                 THEN "valid" ELSE "stale"]
                IN IF isCacheValid(tokenHash, DEFAULT_TTL_SECONDS)
                   THEN call' = [call EXCEPT ![c] =
                          Return(c, [rec2 EXCEPT !.retAge =
                                       now - usageCacheMap[tokenHash].timestamp],
                                 usageCacheMap[tokenHash].data, "mem")]
                   ELSE call' = [call EXCEPT ![c] = [rec2 EXCEPT !.pc = "disk"]]
  /\ UNCHANGED <<now, ticks, procs, cred, usageCacheMap,
                 pendingRequests, lastCleanupTime, cacheDirMode, cacheFiles,
                 promise, cleanup, saved, fetched>>
  /\ UNCHANGED <<account, sessionVars, probe, resolverVars, render, fp>>

\* readFile(cacheFile) of loadFileCache completes: the content is captured
DiskRead(c) ==
  /\ call[c].pc \in {"disk", "fbdisk"}
  /\ call' = [call EXCEPT ![c] =
       [@ EXCEPT !.raw = ReadFile(getCacheFilePath(call[c].tokenHash)),
                 !.pc = IF @ = "disk" THEN "loaded" ELSE "fbloaded"]]
  /\ UNCHANGED <<now, ticks, procs, cred, usageCacheMap,
                 pendingRequests, lastTokenHash, lastCleanupTime, cacheDirMode,
                 cacheFiles, promise, cleanup, saved, fetched>>
  /\ UNCHANGED <<account, sessionVars, probe, resolverVars, render, fp>>

\* the fallback's loadFileCache(lastTokenHash, ttlSeconds * 10) returned
FallbackLoaded(c) ==
  /\ call[c].pc = "fbloaded"
  /\ LET fileCache == loadFileCache(call[c].raw,
                        DEFAULT_TTL_SECONDS * FALLBACK_TTL_FACTOR)
     IN call' = [call EXCEPT ![c] =
          IF fileCache = Null THEN Return(c, call[c], Null, "none")
          ELSE Return(c, [call[c] EXCEPT !.retAge =
                            now - Parse(call[c].raw).timestamp],
                      fileCache, "fallback-disk")]
  /\ UNCHANGED <<now, ticks, procs, cred, usageCacheMap,
                 pendingRequests, lastTokenHash, lastCleanupTime, cacheDirMode,
                 cacheFiles, promise, cleanup, saved, fetched>>
  /\ UNCHANGED <<account, sessionVars, probe, resolverVars, render, fp>>

\* loadFileCache(tokenHash, ttlSeconds) returned: promote and return, or join
\* the pending request, or start fetchFromApi and register it
DiskLoaded(c) ==
  /\ call[c].pc = "loaded"
  /\ LET fileCache == loadFileCache(call[c].raw, DEFAULT_TTL_SECONDS)
         tokenHash == call[c].tokenHash
         raw == call[c].raw
         diskSeen ==
           IF raw = ENOENT THEN "absent"
           ELSE IF ~ParseOk(raw) THEN "corrupt"
           ELSE IF Fresh(Parse(raw).timestamp, DEFAULT_TTL_SECONDS)
           THEN "valid" ELSE "stale"
         rec == [call[c] EXCEPT !.diskSeen = diskSeen,
                                !.loadedAt = now]
     IN IF fileCache # Null
        THEN /\ usageCacheMap' = MapSet(usageCacheMap, tokenHash,
                                   [data |-> fileCache, timestamp |-> now])
             /\ call' = [call EXCEPT ![c] =
                  Return(c, [rec EXCEPT !.retAge =
                               now - Parse(call[c].raw).timestamp],
                         fileCache, "disk")]
             /\ UNCHANGED pendingRequests
        ELSE IF tokenHash \in DOMAIN pendingRequests
        THEN /\ call' = [call EXCEPT ![c] =
                  [rec EXCEPT !.pc = "join",
                              !.joined = pendingRequests[tokenHash]]]
             /\ UNCHANGED <<usageCacheMap, pendingRequests>>
        ELSE /\ call' = [call EXCEPT ![c] =
                  [rec EXCEPT !.pc = "net", !.netBy = @ + 1]]
             /\ pendingRequests' = MapSet(pendingRequests, tokenHash, c)
             /\ UNCHANGED usageCacheMap
  /\ UNCHANGED <<now, ticks, procs, cred, lastTokenHash,
                 lastCleanupTime, cacheDirMode, cacheFiles, promise, cleanup,
                 saved, fetched>>
  /\ UNCHANGED <<account, sessionVars, probe, resolverVars, render, fp>>

\* return pending: the caller's promise follows the owner's requestPromise
Join(c) ==
  /\ call[c].pc = "join"
  /\ promise[call[c].joined] # Unsettled
  /\ call' = [call EXCEPT ![c] =
       [Return(c, call[c], promise[call[c].joined], "join")
          EXCEPT !.threw = (promise[call[c].joined] = Rejected)]]
  /\ UNCHANGED <<now, ticks, procs, cred, usageCacheMap,
                 pendingRequests, lastTokenHash, lastCleanupTime, cacheDirMode,
                 cacheFiles, promise, cleanup, saved, fetched>>
  /\ UNCHANGED <<account, sessionVars, probe, resolverVars, render, fp>>

(***************************************************************************)
(* fetchFromApi, saveFileCache, cleanupExpiredCache                        *)
(***************************************************************************)
FailureValue_Uncaught(outcome) ==
  IF outcome = "malformed" THEN Rejected ELSE Null

\* what requestPromise settles to when the request ends without a usable
\* body: !response.ok returns null, every exception is caught and gives null
FailureValue(outcome) == Null

Settle_KeepOnFailure(c, rec, value) ==
  /\ promise' = [promise EXCEPT ![c] = value]
  /\ pendingRequests' = IF value = Null THEN pendingRequests
                        ELSE MapDelete(pendingRequests, rec.tokenHash)
  /\ call' = [call EXCEPT ![c] =
       [Return(c, rec, value, "net") EXCEPT !.threw = (value = Rejected)]]

\* requestPromise settled: the owner's await resumes and its finally block
\* runs pendingRequests.delete(tokenHash)
Settle(c, rec, value) ==
  /\ promise' = [promise EXCEPT ![c] = value]
  /\ pendingRequests' = MapDelete(pendingRequests, rec.tokenHash)
  /\ call' = [call EXCEPT ![c] =
       [Return(c, rec, value, "net") EXCEPT !.threw = (value = Rejected)]]

\* the request of fetchFromApi ends: fetch rejected (network error, abort by
\* the timeout), status not ok, response.json() rejected, or a usable body
NetRespond(c, outcome) ==
  /\ call[c].pc = "net"
  /\ LET rec == [call[c] EXCEPT !.outcome = outcome]
         limits == Limits(ApiBody(call[c].token, ticks))
     IN IF outcome # "ok"
        THEN /\ Settle(c, rec, FailureValue(outcome))
             /\ UNCHANGED <<usageCacheMap, fetched>>
        ELSE /\ usageCacheMap' = MapSet(usageCacheMap, call[c].tokenHash,
                                   [data |-> limits, timestamp |-> now])
             /\ call' = [call EXCEPT ![c] =
                  [rec EXCEPT !.pc = "mkdir", !.limits = limits]]
             /\ fetched' = MapSet(fetched, call[c].tokenHash,
                             [data |-> limits, time |-> now])
             /\ UNCHANGED <<promise, pendingRequests>>
  /\ UNCHANGED <<now, ticks, procs, cred, lastTokenHash,
                 lastCleanupTime, cacheDirMode, cacheFiles, cleanup, saved>>
  /\ UNCHANGED <<account, sessionVars, probe, resolverVars, render, fp>>

\* fetch resolves with the response (status and headers), and
\* clearTimeout(timeout) runs; the body is still to be read by response.json()
NetHeaders(c) ==
  /\ call[c].pc = "net"
  /\ ~call[c].headers
  /\ call' = [call EXCEPT ![c] = [@ EXCEPT !.headers = TRUE]]
  /\ UNCHANGED <<now, ticks, procs, cred, usageCacheMap, pendingRequests,
                 lastTokenHash, lastCleanupTime, cacheDirMode, cacheFiles,
                 promise, cleanup, saved, fetched>>
  /\ UNCHANGED <<account, sessionVars, probe, resolverVars, render, fp>>

\* API_TIMEOUT_MS after the request was issued the timer, unless cleared,
\* runs controller.abort(): fetch rejects, the catch block returns null
AbortTimer(c) ==
  /\ call[c].pc = "net"
  /\ ~call[c].headers
  /\ Settle(c, [call[c] EXCEPT !.outcome = "timeout"], Null)
  /\ UNCHANGED <<now, ticks, procs, cred, usageCacheMap, lastTokenHash,
                 lastCleanupTime, cacheDirMode, cacheFiles, cleanup, saved,
                 fetched>>
  /\ UNCHANGED <<account, sessionVars, probe, resolverVars, render, fp>>

EnsureCacheDir_Throws(c, ok) ==
  /\ call[c].pc = "mkdir"
  /\ cacheDirMode' = IF ok /\ cacheDirMode = 0 THEN 448 ELSE cacheDirMode
  /\ IF ok
     THEN /\ call' = [call EXCEPT ![c] = [@ EXCEPT !.pc = "write", !.wts = now]]
          /\ UNCHANGED <<pendingRequests, promise>>
     ELSE Settle(c, call[c], Rejected)
  /\ UNCHANGED <<now, ticks, procs, cred, usageCacheMap,
                 lastTokenHash, lastCleanupTime, cacheFiles,
                 cleanup, saved, fetched>>
  /\ UNCHANGED <<account, sessionVars, probe, resolverVars, render, fp>>

\* ensureCacheDir: mkdir(CACHE_DIR, {recursive, mode: 0o700}), errors ignored;
\* then saveFileCache stamps the record and issues writeFile
EnsureCacheDir(c, ok) ==
  /\ call[c].pc = "mkdir"
  /\ cacheDirMode' = IF ok /\ cacheDirMode = 0 THEN 448 ELSE cacheDirMode
  /\ call' = [call EXCEPT ![c] = [@ EXCEPT !.pc = "write", !.wts = now]]
  /\ UNCHANGED <<now, ticks, procs, cred, usageCacheMap,
                 pendingRequests, lastTokenHash, lastCleanupTime, cacheFiles,
                 promise, cleanup, saved, fetched>>
  /\ UNCHANGED <<account, sessionVars, probe, resolverVars, render, fp>>

\* the synchronous head of cleanupExpiredCache: the throttle
cleanupExpiredCache ==
  IF now - lastCleanupTime < CLEANUP_INTERVAL_MS
  THEN UNCHANGED <<lastCleanupTime, cleanup>>
  ELSE /\ lastCleanupTime' = now
       /\ cleanup' = [cleanup EXCEPT !.pc = "readdir", !.now = now,
                        !.files = {}, !.cur = <<>>,
                        !.scans = @ \cup {now}, !.unlinked = {},
                        !.failed = FALSE]

WriteOutcomes == {"ok", "fail", "partial"}

\* writeFile(cacheFile, json, {mode: 0o600}) ends; on success the cleanup is
\* triggered; every error is swallowed; fetchFromApi returns limits
SaveFileCache(c, w) ==
  /\ call[c].pc = "write"
  /\ w \in WriteOutcomes
  /\ w # "fail" => cacheDirMode # 0
  /\ LET name == getCacheFilePath(call[c].tokenHash)
         mode == IF name \in DOMAIN cacheFiles THEN cacheFiles[name].mode
                 ELSE 384
         json == <<"{data:", call[c].limits, ",timestamp:", call[c].wts, "}">>
     IN CASE w = "ok" ->
               /\ cacheFiles' = MapSet(cacheFiles, name,
                    [content |-> json, mtime |-> now, mode |-> mode])
               /\ saved' = MapSet(saved, call[c].tokenHash,
                    [data |-> call[c].limits, timestamp |-> call[c].wts])
               /\ cleanupExpiredCache
          [] w = "partial" ->
               /\ cacheFiles' = MapSet(cacheFiles, name,
                    [content |-> <<"{data:">>, mtime |-> now, mode |-> mode])
               /\ saved' = MapDelete(saved, call[c].tokenHash)
               /\ UNCHANGED <<lastCleanupTime, cleanup>>
          [] w = "fail" ->
               UNCHANGED <<cacheFiles, saved, lastCleanupTime, cleanup>>
  /\ Settle(c, call[c], call[c].limits)
  /\ UNCHANGED <<now, ticks, procs, cred, usageCacheMap,
                 lastTokenHash, cacheDirMode, fetched>>
  /\ UNCHANGED <<account, sessionVars, probe, resolverVars, render, fp>>

Matches(file) == file[1] = "cache-" /\ file[Len(file)] = ".json"

Expired(file, at) ==
  /\ Matches(file)
  /\ at - cacheFiles[file].mtime > CACHE_MAX_AGE_SECONDS * 1000

\* the asynchronous rest of cleanupExpiredCache: readdir(CACHE_DIR), then stat
\* and unlink per listed file; a missing directory ends it
CleanupSweep ==
  /\ cleanup.pc = "readdir"
  /\ LET gone == IF cacheDirMode = 0 THEN {}
                 ELSE {f \in DOMAIN cacheFiles : Expired(f, cleanup.now)}
     IN /\ cacheFiles' = [f \in DOMAIN cacheFiles \ gone |-> cacheFiles[f]]
        /\ saved' = [h \in {k \in DOMAIN saved : getCacheFilePath(k) \notin gone}
                       |-> saved[h]]
  /\ cleanup' = [cleanup EXCEPT !.pc = "idle", !.now = 0]
  /\ UNCHANGED <<now, ticks, procs, cred, usageCacheMap,
                 pendingRequests, lastTokenHash, lastCleanupTime, cacheDirMode,
                 call, promise, fetched>>
  /\ UNCHANGED <<account, sessionVars, probe, resolverVars, render, fp>>

(***************************************************************************)
(* cleanupExpiredCache await by await, next to another process that writes *)
(* into the same directory                                                 *)
(***************************************************************************)
\* the tail of saveFileCache in this process: writeFile succeeded, then
\* cleanupExpiredCache() is called
WriteAndCleanup(tokenHash) ==
  /\ cleanup.pc = "idle"
  /\ cacheDirMode # 0
  /\ LET name == getCacheFilePath(tokenHash)
     IN cacheFiles' = MapSet(cacheFiles, name,
          [content |-> <<>>, mtime |-> now,
           mode |-> IF name \in DOMAIN cacheFiles THEN cacheFiles[name].mode
                    ELSE 384])
  /\ cleanupExpiredCache
  /\ UNCHANGED <<now, ticks, procs, cred, account, usageCacheMap,
                 pendingRequests, lastTokenHash, cacheDirMode, call, promise,
                 saved, fetched, sessionVars, probe, resolverVars, render, fp>>

\* the writeFile of saveFileCache in another process
OtherProcessWrite(tokenHash) ==
  /\ cacheDirMode # 0
  /\ LET name == getCacheFilePath(tokenHash)
     IN /\ name \in DOMAIN cacheFiles => cacheFiles[name].mtime # now
        /\ cacheFiles' = MapSet(cacheFiles, name,
             [content |-> <<>>, mtime |-> now,
              mode |-> IF name \in DOMAIN cacheFiles
                       THEN cacheFiles[name].mode ELSE 384])
  /\ UNCHANGED <<now, ticks, procs, cred, account, usageCacheMap,
                 pendingRequests, lastTokenHash, lastCleanupTime, cacheDirMode,
                 call, promise, cleanup, saved, fetched, sessionVars, probe,
                 resolverVars, render, fp>>

\* readdir(CACHE_DIR) ends; an error ends the pass
CleanupReaddir(ok) ==
  /\ cleanup.pc = "readdir"
  /\ cleanup' =
       IF ok /\ cacheDirMode # 0
       THEN [cleanup EXCEPT !.pc = "loop", !.files = DOMAIN cacheFiles]
       ELSE [cleanup EXCEPT !.pc = "idle", !.failed = TRUE]
  /\ UNCHANGED <<now, ticks, procs, cred, account, usageCacheMap,
                 pendingRequests, lastTokenHash, lastCleanupTime, cacheDirMode,
                 cacheFiles, call, promise, saved, fetched, sessionVars,
                 probe, resolverVars, render, fp>>

\* the loop takes the next listed file: a name that does not match is
\* skipped, for one that does stat is called; after the last file the pass
\* is over
CleanupLoop ==
  /\ cleanup.pc = "loop"
  /\ IF cleanup.files = {}
     THEN cleanup' = [cleanup EXCEPT !.pc = "idle"]
     ELSE \E file \in cleanup.files :
            cleanup' = [cleanup EXCEPT !.files = @ \ {file},
                          !.cur = IF Matches(file) THEN file ELSE <<>>,
                          !.pc = IF Matches(file) THEN "stat" ELSE "loop"]
  /\ UNCHANGED <<now, ticks, procs, cred, account, usageCacheMap,
                 pendingRequests, lastTokenHash, lastCleanupTime, cacheDirMode,
                 cacheFiles, call, promise, saved, fetched, sessionVars,
                 probe, resolverVars, render, fp>>

\* stat(filePath) ends: unlink is called when ageSeconds >
\* CACHE_MAX_AGE_SECONDS, with now the instant the pass started; an error
\* moves on to the next file
CleanupStat(ok) ==
  /\ cleanup.pc = "stat"
  /\ cleanup' =
       IF ok /\ cleanup.cur \in DOMAIN cacheFiles
       THEN [cleanup EXCEPT !.pc = IF Expired(cleanup.cur, cleanup.now)
                                  THEN "unlink" ELSE "loop"]
       ELSE [cleanup EXCEPT !.pc = "loop", !.failed = TRUE]
  /\ UNCHANGED <<now, ticks, procs, cred, account, usageCacheMap,
                 pendingRequests, lastTokenHash, lastCleanupTime, cacheDirMode,
                 cacheFiles, call, promise, saved, fetched, sessionVars,
                 probe, resolverVars, render, fp>>

\* unlink(filePath) ends; an error moves on to the next file
CleanupUnlink(ok) ==
  /\ cleanup.pc = "unlink"
  /\ IF ok /\ cleanup.cur \in DOMAIN cacheFiles
     THEN /\ cacheFiles' = MapDelete(cacheFiles, cleanup.cur)
          /\ cleanup' = [cleanup EXCEPT !.pc = "loop",
                           !.unlinked = @ \cup
                             {[name |-> cleanup.cur,
                               mtime |-> cacheFiles[cleanup.cur].mtime]}]
     ELSE /\ cleanup' = [cleanup EXCEPT !.pc = "loop", !.failed = TRUE]
          /\ UNCHANGED cacheFiles
  /\ UNCHANGED <<now, ticks, procs, cred, account, usageCacheMap,
                 pendingRequests, lastTokenHash, lastCleanupTime, cacheDirMode,
                 call, promise, saved, fetched, sessionVars, probe, resolverVars, render, fp>>

(***************************************************************************)
(* The environment: the process, the clock, the account, the remote API    *)
(***************************************************************************)
\* the render ends, the process exits; the next render is a new process
Restart ==
  /\ procs < MaxProcs
  /\ \A c \in Calls : ~Active(c)
  /\ \E c \in Calls : call[c].pc = "done"
  /\ cleanup.pc = "idle"
  /\ procs' = procs + 1
  /\ usageCacheMap' = [h \in {} |-> 0]
  /\ pendingRequests' = [h \in {} |-> 0]
  /\ lastTokenHash' = NoHash
  /\ lastCleanupTime' = 0
  /\ call' = [c \in Calls |-> IdleCall]
  /\ promise' = [c \in Calls |-> Unsettled]
  /\ UNCHANGED <<now, ticks, cred, cacheDirMode, cacheFiles,
                 cleanup, saved, fetched>>
  /\ UNCHANGED <<account, sessionVars, probe, resolverVars, render, fp>>

Tick(d) ==
  /\ ticks < MaxTicks
  /\ ticks' = ticks + 1
  /\ now' = now + d
  /\ UNCHANGED <<procs, cred, usageCacheMap, pendingRequests,
                 lastTokenHash, lastCleanupTime, cacheDirMode, cacheFiles,
                 call, promise, cleanup, saved, fetched>>
  /\ UNCHANGED <<account, sessionVars, probe, resolverVars, render, fp>>

\* the user signs in to an account, and the credential store yields its token
\* or fails to
SetCred(acct, readable) ==
  /\ account' = acct
  /\ cred' = IF readable THEN acct ELSE NoToken
  /\ <<account', cred'>> # <<account, cred>>
  /\ UNCHANGED <<now, ticks, procs, usageCacheMap, pendingRequests,
                 lastTokenHash, lastCleanupTime, cacheDirMode, cacheFiles,
                 call, promise, cleanup, saved, fetched>>
  /\ UNCHANGED <<sessionVars, probe, resolverVars, render, fp>>

(***************************************************************************)
(* Session state store (scripts/utils/session.ts)                          *)
(***************************************************************************)
SESSION_DIR == << <<"~">>, <<".cache">>, <<"claude-dashboard">>, <<"sessions">> >>

\* the characters of the class [a-zA-Z0-9-_]
AllowedChars ==
  {"a", "b", "c", "d", "e", "f", "g", "h", "i", "j", "k", "l", "m",
   "n", "o", "p", "q", "r", "s", "t", "u", "v", "w", "x", "y", "z",
   "A", "B", "C", "D", "E", "F", "G", "H", "I", "J", "K", "L", "M",
   "N", "O", "P", "Q", "R", "S", "T", "U", "V", "W", "X", "Y", "Z",
   "0", "1", "2", "3", "4", "5", "6", "7", "8", "9", "-", "_"}

sanitizeSessionId_Raw(sessionId) == sessionId

\* sessionId.replace(/[^a-zA-Z0-9-_]/g, ''), a string as its characters
sanitizeSessionId(sessionId) ==
  LET IsAllowed(ch) == ch \in AllowedChars
  IN SelectSeq(sessionId, IsAllowed)

RECURSIVE JoinChars(_, _, _)
\* path.join(path, rest), with segment the characters read since the last '/'
JoinChars(path, segment, rest) ==
  LET \* path.join: one more segment on the normalized path
      PushSegment ==
        IF segment = <<>> \/ segment = <<".">> THEN path
        ELSE IF segment = <<".", ".">>
             THEN IF path = <<>> THEN path ELSE SubSeq(path, 1, Len(path) - 1)
        ELSE Append(path, segment)
  IN IF rest = <<>> THEN PushSegment
     ELSE IF Head(rest) = "/"
          THEN JoinChars(PushSegment, <<>>, Tail(rest))
     ELSE JoinChars(path, Append(segment, Head(rest)), Tail(rest))

\* join(SESSION_DIR, `${safeSessionId}.json`)
SessionFile(safeSessionId) ==
  JoinChars(SESSION_DIR, <<>>, Append(safeSessionId, ".json"))

\* the path names a file that lies directly in SESSION_DIR
InSessionDir(path) ==
  /\ Len(path) = Len(SESSION_DIR) + 1
  /\ SubSeq(path, 1, Len(SESSION_DIR)) = SESSION_DIR

\* JSON.stringify({ startTime }) and what a file holds between open and write
SessionJson(startTime) == <<"{startTime:", startTime, "}">>
\* JSON.parse succeeds and typeof data.startTime === 'number'
ValidSession(content) == Len(content) = 3
StartTimeOf(content) == content[2]

Procs == {"p1", "p2"}

\* the further callers of getSessionStartTime inside one process
Widgets == {"w1", "w2"}

\* session ids handed in by the host: "s1" and "../../etc/passwd"
Traversal ==
  <<".", ".", "/", ".", ".", "/", "e", "t", "c", "/",
    "p", "a", "s", "s", "w", "d">>
SessionIds == {<<"s", "1">>, Traversal}


IdleSess ==
  [pc |-> "idle", sessionId |-> <<>>, safe |-> <<>>, file |-> <<>>,
   startTime |-> 0, result |-> 0,
   \* history of this call
   src |-> "-", absent |-> FALSE, overlap |-> FALSE, ioFailed |-> FALSE,
   after |-> FALSE, orphan |-> FALSE,
   \* the file this call holds open was unlinked by a cleanup
   unlinked |-> FALSE,
   \* history of the process: runs of getOrCreateSessionStartTimeImpl and
   \* session files it created
   runs |-> 0, creates |-> 0]

\* a further caller of getSessionStartTime in the process (another widget of
\* the same render, or a later render)
IdleCaller == [pc |-> "idle", result |-> 0, src |-> "-"]

IdleSessCleanup == [pc |-> "idle", now |-> 0, files |-> {}, cur |-> <<>>]

SessReturn(rec, value, src) ==
  [rec EXCEPT !.pc = "done", !.result = value, !.src = src, !.startTime = 0]

\* getSessionStartTime: sanitize, the memory cache, then the readFile of
\* getOrCreateSessionStartTimeImpl is issued; a process renders one session,
\* the session_id of its stdin
GetSessionStartTime(p, sessionId) ==
  /\ \/ sess[p].pc = "idle"
     \/ sess[p].pc = "done" /\ sess[p].sessionId = sessionId
  \* the callers awaiting the settled promise resume before any later call
  /\ \A w \in Widgets : sessCallers[p][w].pc # "wait"
  /\ LET safe == sanitizeSessionId(sessionId)
         file == SessionFile(safe)
         rec == [IdleSess EXCEPT !.sessionId = sessionId, !.safe = safe,
                   !.file = file, !.runs = sess[p].runs,
                   !.creates = sess[p].creates]
     IN IF safe \in DOMAIN sessionCache[p]
        THEN sess' = [sess EXCEPT ![p] =
               SessReturn(rec, sessionCache[p][safe], "cache")]
        ELSE sess' = [sess EXCEPT ![p] =
               [rec EXCEPT !.pc = "read", !.runs = @ + 1,
                  !.absent = file \notin DOMAIN sessFiles,
                  !.overlap = \E q \in Procs \ {p} :
                                /\ sess[q].pc \notin {"idle", "done"}
                                /\ sess[q].file = file,
                  !.after = file \in DOMAIN sessFirst,
                  \* the file exists without a start time and nobody is
                  \* about to write one
                  !.orphan = /\ file \in DOMAIN sessFiles
                             /\ ~ValidSession(sessFiles[file].content)
                             /\ \A q \in Procs :
                                  ~(sess[q].pc = "write"
                                    /\ sess[q].file = file)]]
  /\ UNCHANGED <<now, ticks, procs, sessionCache, sessLastCleanup,
                 sessCleanup, sessDirExists, sessFiles, sessFirst>>
  /\ UNCHANGED <<sessCallers, cacheState, probe, resolverVars, render, fp>>

\* readFile(sessionFile) ends: a valid record is cached and returned;
\* otherwise startTime = Date.now() and mkdir is issued
ReadSession(p) ==
  /\ sess[p].pc = "read"
  /\ LET file == sess[p].file
     IN IF file \in DOMAIN sessFiles /\ ValidSession(sessFiles[file].content)
        THEN /\ sessionCache' = [sessionCache EXCEPT ![p] =
                  MapSet(@, sess[p].safe, StartTimeOf(sessFiles[file].content))]
             /\ sess' = [sess EXCEPT ![p] =
                  SessReturn(@, StartTimeOf(sessFiles[file].content), "file")]
        ELSE /\ sess' = [sess EXCEPT ![p] =
                  [@ EXCEPT !.pc = "mkdir", !.startTime = now]]
             /\ UNCHANGED sessionCache
  /\ UNCHANGED <<now, ticks, procs, sessLastCleanup, sessCleanup,
                 sessDirExists, sessFiles, sessFirst>>
  /\ UNCHANGED <<sessCallers, cacheState, probe, resolverVars, render, fp>>

\* the fallback of the outer catch: the local start time, for this process
Fallback_NoCache(p, rec) ==
  /\ UNCHANGED sessionCache
  /\ sess' = [sess EXCEPT ![p] = SessReturn(rec, rec.startTime, "fallback")]

Fallback(p, rec) ==
  /\ sessionCache' = [sessionCache EXCEPT ![p] =
       MapSet(@, rec.safe, rec.startTime)]
  /\ sess' = [sess EXCEPT ![p] = SessReturn(rec, rec.startTime, "fallback")]

\* mkdir(SESSION_DIR, {recursive: true}) ends: it creates the missing
\* directories of the path, ~/.cache/claude-dashboard among them, with the
\* default mode 0o777 under the usual umask 0o022; then
\* open(sessionFile, 'wx')
MkdirSession(p, ok) ==
  /\ sess[p].pc = "mkdir"
  /\ IF ok
     THEN /\ sessDirExists' = TRUE
          /\ cacheDirMode' =
               LET RECURSIVE AndNot(_, _, _)
                   \* a & ~b over the low n bits
                   AndNot(a, b, n) ==
                     IF n = 0 THEN 0
                     ELSE (IF a % 2 = 1 /\ b % 2 = 0 THEN 1 ELSE 0)
                            + 2 * AndNot(a \div 2, b \div 2, n - 1)
                   \* the mode a created directory gets: the requested mode
                   \* without the bits of the umask of the process
                   ModeUnder(mode, umask) == AndNot(mode, umask, 9)
               IN IF cacheDirMode = 0
                  THEN ModeUnder(7 * 64 + 7 * 8 + 7, 2 * 8 + 2)
                  ELSE cacheDirMode
          /\ sess' = [sess EXCEPT ![p] = [@ EXCEPT !.pc = "open"]]
          /\ UNCHANGED sessionCache
     ELSE /\ Fallback(p, [sess[p] EXCEPT !.ioFailed = TRUE])
          /\ UNCHANGED <<sessDirExists, cacheDirMode>>
  /\ UNCHANGED <<now, ticks, procs, sessLastCleanup, sessCleanup, sessFiles,
                 sessFirst>>
  /\ UNCHANGED <<cred, account, usageCacheMap, pendingRequests,
                 lastTokenHash, lastCleanupTime, cacheFiles, call, promise,
                 cleanup, saved, fetched>>
  /\ UNCHANGED <<sessCallers, probe, resolverVars, render, fp>>

OpenSession_Uncached(p, ok) ==
  /\ sess[p].pc = "open"
  /\ LET file == sess[p].file
     IN IF file \in DOMAIN sessFiles
        THEN /\ sess' = [sess EXCEPT ![p] = [@ EXCEPT !.pc = "reread"]]
             /\ UNCHANGED <<sessionCache, sessFiles>>
        ELSE IF ~ok \/ ~sessDirExists
        THEN /\ sess' = [sess EXCEPT ![p] =
                  SessReturn([@ EXCEPT !.ioFailed = TRUE], @.startTime,
                             "fallback")]
             /\ UNCHANGED <<sessionCache, sessFiles>>
        ELSE /\ sessFiles' = MapSet(sessFiles, file,
                               [content |-> <<>>, mtime |-> now])
             /\ sess' = [sess EXCEPT ![p] =
                  [@ EXCEPT !.pc = "write", !.creates = @ + 1]]
             /\ UNCHANGED sessionCache
  /\ UNCHANGED <<now, ticks, procs, sessLastCleanup, sessCleanup,
                 sessDirExists, sessFirst>>
  /\ UNCHANGED <<sessCallers, cacheState, probe, resolverVars, render, fp>>

\* open(sessionFile, 'wx') ends: EEXIST leads to the second readFile, another
\* error to the fallback, success leaves a created, still empty file
OpenSession(p, ok) ==
  /\ sess[p].pc = "open"
  /\ LET file == sess[p].file
     IN IF file \in DOMAIN sessFiles
        THEN /\ sess' = [sess EXCEPT ![p] = [@ EXCEPT !.pc = "reread"]]
             /\ UNCHANGED <<sessionCache, sessFiles>>
        ELSE IF ~ok \/ ~sessDirExists
        THEN /\ Fallback(p, [sess[p] EXCEPT !.ioFailed = TRUE])
             /\ UNCHANGED sessFiles
        ELSE /\ sessFiles' = MapSet(sessFiles, file,
                               [content |-> <<>>, mtime |-> now])
             /\ sess' = [sess EXCEPT ![p] =
                  [@ EXCEPT !.pc = "write", !.creates = @ + 1]]
             /\ UNCHANGED sessionCache
  /\ UNCHANGED <<now, ticks, procs, sessLastCleanup, sessCleanup,
                 sessDirExists, sessFirst>>
  /\ UNCHANGED <<sessCallers, cacheState, probe, resolverVars, render, fp>>

\* fileHandle.writeFile and close end: the record goes into the file the
\* process created; the start time is cached, the cleanup is triggered and
\* startTime is returned; a failed write ends in the fallback
WriteSession(p, ok) ==
  /\ sess[p].pc = "write"
  /\ LET file == sess[p].file
     IN IF ok
        THEN /\ sessFiles' =
                  IF file \in DOMAIN sessFiles /\ ~sess[p].unlinked
                  THEN [sessFiles EXCEPT ![file] =
                         [content |-> SessionJson(sess[p].startTime),
                          mtime |-> now]]
                  ELSE sessFiles
             /\ sessFirst' =
                  IF /\ file \in DOMAIN sessFiles /\ ~sess[p].unlinked
                     /\ file \notin DOMAIN sessFirst
                  THEN MapSet(sessFirst, file, sess[p].startTime)
                  ELSE sessFirst
             /\ sessionCache' = [sessionCache EXCEPT ![p] =
                  MapSet(@, sess[p].safe, sess[p].startTime)]
             /\ sess' = [sess EXCEPT ![p] =
                  SessReturn(@, sess[p].startTime, "created")]
             \* the synchronous head of cleanupExpiredSessions: the throttle
             /\ IF now - sessLastCleanup[p] < CLEANUP_INTERVAL_MS
                THEN UNCHANGED <<sessLastCleanup, sessCleanup>>
                ELSE /\ sessLastCleanup' = [sessLastCleanup EXCEPT ![p] = now]
                     /\ sessCleanup' = [sessCleanup EXCEPT ![p] =
                          [IdleSessCleanup EXCEPT !.pc = "readdir",
                                                  !.now = now]]
        ELSE /\ Fallback(p, [sess[p] EXCEPT !.ioFailed = TRUE])
             /\ UNCHANGED <<sessFiles, sessFirst, sessLastCleanup, sessCleanup>>
  /\ UNCHANGED <<now, ticks, procs, sessDirExists>>
  /\ UNCHANGED <<sessCallers, cacheState, probe, resolverVars, render, fp>>

\* the readFile after EEXIST ends: the winner's start time if the file holds
\* one, else the fallback
RereadSession(p) ==
  /\ sess[p].pc = "reread"
  /\ LET file == sess[p].file
     IN IF file \in DOMAIN sessFiles /\ ValidSession(sessFiles[file].content)
        THEN /\ sessionCache' = [sessionCache EXCEPT ![p] =
                  MapSet(@, sess[p].safe, StartTimeOf(sessFiles[file].content))]
             /\ sess' = [sess EXCEPT ![p] =
                  SessReturn(@, StartTimeOf(sessFiles[file].content), "adopted")]
        ELSE Fallback(p, sess[p])
  /\ UNCHANGED <<now, ticks, procs, sessLastCleanup, sessCleanup,
                 sessDirExists, sessFiles, sessFirst>>
  /\ UNCHANGED <<sessCallers, cacheState, probe, resolverVars, render, fp>>

\* unlink removes the names in gone; a process that holds one of these files
\* open keeps writing to the file it created, which no name refers to
Unlink(gone) ==
  /\ sessFiles' = [f \in DOMAIN sessFiles \ gone |-> sessFiles[f]]
  /\ sess' = [p \in Procs |->
       IF sess[p].pc = "write" /\ sess[p].file \in gone \cap DOMAIN sessFiles
       THEN [sess[p] EXCEPT !.unlinked = TRUE] ELSE sess[p]]

\* the cleanup task runs: readdir(SESSION_DIR), then for each file ending in
\* .json stat and, when mtimeMs < now - SESSION_MAX_AGE_SECONDS * 1000,
\* unlink; every error is ignored
CleanupSessions(p) ==
  /\ sessCleanup[p].pc = "readdir"
  /\ LET gone == IF ~sessDirExists THEN {}
                 ELSE {f \in DOMAIN sessFiles :
                         /\ InSessionDir(f)
                         \* file.endsWith('.json')
                         /\ f[Len(f)][Len(f[Len(f)])] = ".json"
                         /\ sessFiles[f].mtime
                              < sessCleanup[p].now
                                  - SESSION_MAX_AGE_SECONDS * 1000}
     IN Unlink(gone)
  /\ sessCleanup' = [sessCleanup EXCEPT ![p] = IdleSessCleanup]
  /\ UNCHANGED <<now, ticks, procs, sessionCache, sessLastCleanup,
                 sessDirExists, sessFirst>>
  /\ UNCHANGED <<sessCallers, cacheState, probe, resolverVars, render, fp>>

\* cleanupExpiredSessions await by await.  readdir(SESSION_DIR) ends: the
\* names that end in .json are the ones the loop will stat
SweepReaddir(p) ==
  /\ sessCleanup[p].pc = "readdir"
  /\ LET files == IF ~sessDirExists THEN {}
                  ELSE {f \in DOMAIN sessFiles :
                          /\ InSessionDir(f)
                          /\ f[Len(f)][Len(f[Len(f)])] = ".json"}
     IN sessCleanup' = [sessCleanup EXCEPT ![p] =
          IF files = {} THEN IdleSessCleanup
          ELSE [@ EXCEPT !.pc = "stat", !.files = files]]
  /\ UNCHANGED <<now, ticks, procs, sess, sessionCache, sessLastCleanup,
                 sessDirExists, sessFiles, sessFirst>>
  /\ UNCHANGED <<sessCallers, cacheState, probe, resolverVars, render, fp>>

\* stat(filePath) of the next listed file ends: unlink is called when
\* mtimeMs < cutoffTime, with cutoffTime taken when the pass started; an
\* error (the file is gone) moves on to the next file
SweepStat(p) ==
  /\ sessCleanup[p].pc = "stat"
  /\ \E f \in sessCleanup[p].files :
       LET old == /\ f \in DOMAIN sessFiles
                  /\ sessFiles[f].mtime
                       < sessCleanup[p].now - SESSION_MAX_AGE_SECONDS * 1000
           rest == sessCleanup[p].files \ {f}
       IN sessCleanup' = [sessCleanup EXCEPT ![p] =
            IF old THEN [@ EXCEPT !.pc = "unlink", !.cur = f, !.files = rest]
            ELSE IF rest = {} THEN IdleSessCleanup
            ELSE [@ EXCEPT !.files = rest]]
  /\ UNCHANGED <<now, ticks, procs, sess, sessionCache, sessLastCleanup,
                 sessDirExists, sessFiles, sessFirst>>
  /\ UNCHANGED <<sessCallers, cacheState, probe, resolverVars, render, fp>>

\* unlink(filePath) ends: whatever file has that name now is removed; an
\* error is ignored; the loop goes on
SweepUnlink(p) ==
  /\ sessCleanup[p].pc = "unlink"
  /\ Unlink({sessCleanup[p].cur})
  /\ sessCleanup' = [sessCleanup EXCEPT ![p] =
       IF @.files = {} THEN IdleSessCleanup
       ELSE [@ EXCEPT !.pc = "stat", !.cur = <<>>]]
  /\ UNCHANGED <<now, ticks, procs, sessionCache, sessLastCleanup,
                 sessDirExists, sessFirst>>
  /\ UNCHANGED <<sessCallers, cacheState, probe, resolverVars, render, fp>>

\* the render is over: the process exits and a new one takes its place
ExitProcess(p) ==
  /\ procs < MaxProcs
  /\ sess[p].pc = "done"
  /\ sessCleanup[p].pc = "idle"
  /\ procs' = procs + 1
  /\ sess' = [sess EXCEPT ![p] = IdleSess]
  /\ sessionCache' = [sessionCache EXCEPT ![p] = NoSaved]
  /\ sessLastCleanup' = [sessLastCleanup EXCEPT ![p] = 0]
  /\ sessCallers' = [sessCallers EXCEPT ![p] = [w \in Widgets |-> IdleCaller]]
  /\ UNCHANGED <<now, ticks, sessCleanup, sessDirExists, sessFiles,
                 sessFirst>>
  /\ UNCHANGED <<cacheState, probe, resolverVars, render, fp>>

\* the process is killed between open(sessionFile, 'wx') and
\* fileHandle.writeFile: the created file stays, empty, and a new process
\* takes the place of the killed one
KillSession(p) ==
  /\ procs < MaxProcs
  /\ sess[p].pc = "write"
  /\ procs' = procs + 1
  /\ sess' = [sess EXCEPT ![p] = IdleSess]
  /\ sessionCache' = [sessionCache EXCEPT ![p] = NoSaved]
  /\ sessLastCleanup' = [sessLastCleanup EXCEPT ![p] = 0]
  /\ sessCleanup' = [sessCleanup EXCEPT ![p] = IdleSessCleanup]
  /\ sessCallers' = [sessCallers EXCEPT ![p] = [w \in Widgets |-> IdleCaller]]
  /\ UNCHANGED <<now, ticks, sessDirExists, sessFiles, sessFirst>>
  /\ UNCHANGED <<cacheState, probe, resolverVars, render, fp>>

\* a further call of getSessionStartTime for the session of the process while
\* its request is in flight: no cache entry yet, the pending promise is
\* returned
JoinSession(p, w) ==
  /\ sessCallers[p][w].pc = "idle"
  /\ sess[p].pc \notin {"idle", "done"}
  /\ sess[p].safe \notin DOMAIN sessionCache[p]
  /\ sessCallers' = [sessCallers EXCEPT ![p][w] =
       [IdleCaller EXCEPT !.pc = "wait"]]
  /\ UNCHANGED <<now, ticks, procs, sess, sessionCache, sessLastCleanup,
                 sessCleanup, sessDirExists, sessFiles, sessFirst>>
  /\ UNCHANGED <<cacheState, probe, resolverVars, render, fp>>

\* the pending promise has settled: the caller that awaited it resumes with
\* its value
ResumeSession(p, w) ==
  /\ sessCallers[p][w].pc = "wait"
  /\ sess[p].pc = "done"
  /\ sessCallers' = [sessCallers EXCEPT ![p][w] =
       [pc |-> "done", result |-> sess[p].result, src |-> "pending"]]
  /\ UNCHANGED <<now, ticks, procs, sess, sessionCache, sessLastCleanup,
                 sessCleanup, sessDirExists, sessFiles, sessFirst>>
  /\ UNCHANGED <<cacheState, probe, resolverVars, render, fp>>

\* a further call of getSessionStartTime after the request of the process
\* has settled: answered from sessionCache
LaterCall(p, w) ==
  /\ sessCallers[p][w].pc = "idle"
  /\ sess[p].pc = "done"
  /\ sess[p].safe \in DOMAIN sessionCache[p]
  /\ sessCallers' = [sessCallers EXCEPT ![p][w] =
       [pc |-> "done", result |-> sessionCache[p][sess[p].safe],
        src |-> "cache"]]
  /\ UNCHANGED <<now, ticks, procs, sess, sessionCache, sessLastCleanup,
                 sessCleanup, sessDirExists, sessFiles, sessFirst>>
  /\ UNCHANGED <<cacheState, probe, resolverVars, render, fp>>

SessionTick(d) ==
  /\ ticks < MaxTicks
  /\ ticks' = ticks + 1
  /\ now' = now + d
  /\ UNCHANGED sessionVars
  /\ UNCHANGED procs
  /\ UNCHANGED <<sessCallers, cacheState, probe, resolverVars, render, fp>>

SessionIdle ==
  /\ sess = [p \in Procs |-> IdleSess]
  /\ sessionCache = [p \in Procs |-> NoSaved]
  /\ sessLastCleanup = [p \in Procs |-> 0]
  /\ sessCleanup = [p \in Procs |-> IdleSessCleanup]
  /\ sessDirExists = FALSE
  /\ sessFiles = NoSaved
  /\ sessFirst = NoSaved
  /\ sessCallers = [p \in Procs |-> [w \in Widgets |-> IdleCaller]]

(***************************************************************************)
(* The file a session id leads to, for the ids of a bounded alphabet       *)
(***************************************************************************)
IdleProbe == [pc |-> "idle", sessionId |-> <<>>, safe |-> <<>>, file |-> <<>>]

\* getSessionStartTime up to the first file operation: the sanitized id and
\* the sessionFile that is then read, created or re-read
GetSessionFile ==
  /\ probe.pc = "in"
  /\ probe' = [probe EXCEPT !.pc = "out",
                 !.safe = sanitizeSessionId(probe.sessionId),
                 !.file = SessionFile(sanitizeSessionId(probe.sessionId))]
  /\ UNCHANGED <<now, ticks, procs, cacheState, sessionVars,
                 resolverVars, render, fp>>

(***************************************************************************)
(* The Gemini credential resolver with silent refresh                      *)
(* (scripts/utils/api-client.ts: getValidCredentials)                      *)
(***************************************************************************)
Resolvers == {"r1", "r2"}

\* an access_token that is a JSON number
NumberToken == "12345"
NoRefresh == ""

\* expiry dates: none, and one in the past
NoExpiry == 0
PastExpiry == StartTime - TOKEN_REFRESH_BUFFER_MS

Credentials(accessToken, refreshToken, expiryDate) ==
  [accessToken |-> accessToken, refreshToken |-> refreshToken,
   expiryDate |-> expiryDate]

\* what readFile(oauthPath) and JSON.parse make of oauth_creds.json
NoFile == [kind |-> "enoent"]
Json(access_token, refresh_token, expiry_date) ==
  [kind |-> "json", access_token |-> access_token,
   refresh_token |-> refresh_token, expiry_date |-> expiry_date]

IdleRes ==
  [pc |-> "idle", raw |-> NoFile, mtime |-> 0, credentials |-> Null,
   owner |-> "", result |-> Null, threw |-> FALSE,
   \* history of this call
   overlap |-> FALSE, needed |-> NoRefresh, trips |-> 0, first |-> FALSE,
   cause |-> "-", prev |-> {}]

ResReturn(rec, value, cause) ==
  [rec EXCEPT !.pc = "done", !.result = value, !.cause = cause]

\* getValidCredentials from the point where getGeminiCredentials has
\* returned: tokenNeedsRefresh, then refreshToken up to its first await
HaveCredentials(c, rec, credentials) ==
  IF credentials = Null
  THEN /\ res' = [res EXCEPT ![c] = ResReturn(rec, Null, "nocreds")]
       /\ UNCHANGED <<pendingRefreshRequests, roundTrips>>
  ELSE IF LET tokenNeedsRefresh ==
                /\ credentials.expiryDate # NoExpiry
                /\ credentials.expiryDate < now + TOKEN_REFRESH_BUFFER_MS
          IN ~tokenNeedsRefresh
  THEN /\ res' = [res EXCEPT ![c] = ResReturn(rec, credentials, "valid")]
       /\ UNCHANGED <<pendingRefreshRequests, roundTrips>>
  ELSE IF credentials.refreshToken = NoRefresh
  THEN /\ res' = [res EXCEPT ![c] = ResReturn(rec, Null, "norefresh")]
       /\ UNCHANGED <<pendingRefreshRequests, roundTrips>>
  \* hash.update(data) of crypto throws a TypeError for a number
  ELSE IF credentials.accessToken = NumberToken
  THEN /\ res' = [res EXCEPT ![c] =
            [ResReturn(rec, Null, "typeerror") EXCEPT !.threw = TRUE]]
       /\ UNCHANGED <<pendingRefreshRequests, roundTrips>>
  ELSE LET tokenHash == hashToken(credentials.accessToken)
           rec2 == [rec EXCEPT !.credentials = credentials,
                      !.needed = credentials.refreshToken]
       IN IF tokenHash \in DOMAIN pendingRefreshRequests
          THEN /\ res' = [res EXCEPT ![c] =
                    [rec2 EXCEPT !.pc = "join",
                       !.owner = pendingRefreshRequests[tokenHash]]]
               /\ UNCHANGED <<pendingRefreshRequests, roundTrips>>
          ELSE /\ res' = [res EXCEPT ![c] =
                    [rec2 EXCEPT !.pc = "refresh", !.owner = c,
                       !.trips = @ + 1, !.first = (roundTrips = 0)]]
               /\ pendingRefreshRequests' =
                    MapSet(pendingRefreshRequests, tokenHash, c)
               /\ roundTrips' = roundTrips + 1

\* getValidCredentials is called: getTokenFromKeychain runs execFileSync; with
\* no keychain credentials, getCredentialsFromFile issues stat(oauthPath)
GetValidCredentials(c) ==
  /\ res[c].pc = "idle"
  /\ LET rec == [IdleRes EXCEPT
                   !.overlap = \E d \in Resolvers \ {c} :
                                res[d].pc \notin {"idle", "done"},
                   !.prev = {d \in Resolvers : res[d].pc = "done"}]
     IN IF keychain # Null
        THEN HaveCredentials(c, rec, keychain)
        ELSE /\ res' = [res EXCEPT ![c] = [rec EXCEPT !.pc = "stat"]]
             /\ UNCHANGED <<pendingRefreshRequests, roundTrips>>
  /\ UNCHANGED <<keychain, oauthFile, cachedCredentials, refreshPromise>>
  /\ UNCHANGED <<now, ticks, procs, cacheState, sessionVars, probe, render, fp,
                 kc, eng>>

\* stat(oauthPath) ends: it throws for a missing file; with an unchanged
\* mtime the cached credentials are returned; else readFile is issued
OauthStat(c) ==
  /\ res[c].pc = "stat"
  /\ IF oauthFile.raw = NoFile
     THEN HaveCredentials(c, res[c], Null)
     ELSE IF cachedCredentials # Null
             /\ cachedCredentials.mtime = oauthFile.mtime
     THEN HaveCredentials(c, res[c], cachedCredentials.data)
     ELSE /\ res' = [res EXCEPT ![c] =
               [@ EXCEPT !.pc = "read", !.mtime = oauthFile.mtime]]
          /\ UNCHANGED <<pendingRefreshRequests, roundTrips>>
  /\ UNCHANGED <<keychain, oauthFile, cachedCredentials, refreshPromise>>
  /\ UNCHANGED <<now, ticks, procs, cacheState, sessionVars, probe, render, fp,
                 kc, eng>>

\* readFile(oauthPath) reads the file
OauthRead(c) ==
  /\ res[c].pc = "read"
  /\ res' = [res EXCEPT ![c] =
       [@ EXCEPT !.pc = "loaded", !.raw = oauthFile.raw]]
  /\ UNCHANGED <<keychain, oauthFile, cachedCredentials,
                 pendingRefreshRequests, refreshPromise, roundTrips>>
  /\ UNCHANGED <<now, ticks, procs, cacheState, sessionVars, probe, render, fp,
                 kc, eng>>

\* the continuation of readFile in getCredentialsFromFile: JSON.parse, the
\* access_token check, cachedCredentials; then getValidCredentials goes on
OauthLoaded(c) ==
  /\ res[c].pc = "loaded"
  /\ LET raw == res[c].raw
         \* getCredentialsFromFile after JSON.parse
         credentials ==
           IF raw.kind # "json" \/ raw.access_token = "" THEN Null
           ELSE Credentials(raw.access_token, raw.refresh_token,
                            raw.expiry_date)
     IN /\ cachedCredentials' =
             IF credentials = Null THEN cachedCredentials
             ELSE [data |-> credentials, mtime |-> res[c].mtime]
        /\ HaveCredentials(c, res[c], credentials)
  /\ UNCHANGED <<keychain, oauthFile, refreshPromise>>
  /\ UNCHANGED <<now, ticks, procs, cacheState, sessionVars, probe, render, fp,
                 kc, eng>>

\* refreshTokenInternal settles: the finally callback deletes the pending
\* entry and the call that started the refresh returns its value
RefreshSettle(c, value) ==
  /\ refreshPromise' = [refreshPromise EXCEPT ![c] = value]
  /\ pendingRefreshRequests' =
       MapDelete(pendingRefreshRequests,
                 hashToken(res[c].credentials.accessToken))
  /\ res' = [res EXCEPT ![c] =
       ResReturn(@, value, IF value = Null THEN "failed" ELSE "refreshed")]

\* the POST to the token endpoint ends: a failure gives null; a body with an
\* access_token gives the new credentials ("g2", then "g3"; "g1" is the
\* stored token), and saveCredentialsToFile starts
RefreshRespond(c, outcome) ==
  /\ res[c].pc = "refresh"
  /\ IF outcome = "ok"
     THEN /\ res' = [res EXCEPT ![c] =
               [@ EXCEPT !.pc = "save",
                  !.result = Credentials(<<"g2", "g3">>[roundTrips],
                               res[c].credentials.refreshToken,
                               now + 12 * TOKEN_REFRESH_BUFFER_MS)]]
          /\ UNCHANGED <<pendingRefreshRequests, refreshPromise>>
     ELSE RefreshSettle(c, Null)
  /\ UNCHANGED <<keychain, oauthFile, cachedCredentials, roundTrips>>
  /\ UNCHANGED <<now, ticks, procs, cacheState, sessionVars, probe, render, fp,
                 kc, eng>>

\* saveCredentialsToFile ends (a failed write is only logged), then
\* cachedCredentials = null and the new credentials are returned
RefreshSave(c, ok) ==
  /\ res[c].pc = "save"
  /\ oauthFile' =
       IF ok
       THEN [raw |-> Json(res[c].result.accessToken,
                          res[c].result.refreshToken,
                          res[c].result.expiryDate),
             mtime |-> oauthFile.mtime + 1]
       ELSE oauthFile
  /\ cachedCredentials' = Null
  /\ RefreshSettle(c, res[c].result)
  /\ UNCHANGED <<keychain, roundTrips>>
  /\ UNCHANGED <<now, ticks, procs, cacheState, sessionVars, probe, render, fp,
                 kc, eng>>

\* the pending refresh promise has settled: the call that awaited it returns
\* its value
RefreshJoined(c) ==
  /\ res[c].pc = "join"
  /\ refreshPromise[res[c].owner] # Unsettled
  /\ res' = [res EXCEPT ![c] =
       ResReturn(@, refreshPromise[res[c].owner], "joined")]
  /\ UNCHANGED <<keychain, oauthFile, cachedCredentials,
                 pendingRefreshRequests, refreshPromise, roundTrips>>
  /\ UNCHANGED <<now, ticks, procs, cacheState, sessionVars, probe, render, fp,
                 kc, eng>>

(***************************************************************************)
(* The resolvers' call of the OS secret store                              *)
(* (scripts/utils/credentials.ts, scripts/utils/api-client.ts)             *)
(***************************************************************************)
\* the timeout option of execFileSync('security', ...) in milliseconds; 0,
\* the default of child_process, means none
ExecTimeout ==
  [claude |-> 0, gemini |-> 3000]

IdleKc ==
  [pc |-> "idle", result |-> Null, calls |-> 0,
   \* history: the subprocess was killed on its timeout
   killed |-> FALSE]

\* getCredentials / getGeminiCredentials is called: on darwin the keychain is
\* asked first, elsewhere the credential file is read.  execFileSync blocks
\* the event loop, so nothing starts while a subprocess runs
Resolve(r, platform) ==
  /\ kc[r].pc \in {"idle", "done"}
  /\ kc[r].calls < MaxResolves
  /\ \A s \in DOMAIN kc : kc[s].pc # "exec"
  /\ kc' = [kc EXCEPT ![r] =
       [IdleKc EXCEPT !.calls = kc[r].calls + 1,
                      !.pc = IF platform = "darwin" THEN "exec" ELSE "file"]]
  /\ UNCHANGED <<keychain, oauthFile, cachedCredentials,
                 pendingRefreshRequests, refreshPromise, res, roundTrips, eng>>
  /\ UNCHANGED <<now, ticks, procs, cacheState, sessionVars, probe, render, fp>>

\* the security subprocess exits: with the stored JSON, with empty output, or
\* with an error; without a token the credential file is read
ExecExit(r, out) ==
  /\ kc[r].pc = "exec"
  /\ kc' = [kc EXCEPT ![r] =
       IF out = "token" THEN [@ EXCEPT !.pc = "done", !.result = [kind |-> "credentials"]]
       ELSE [@ EXCEPT !.pc = "file"]]
  /\ UNCHANGED <<keychain, oauthFile, cachedCredentials,
                 pendingRefreshRequests, refreshPromise, res, roundTrips, eng>>
  /\ UNCHANGED <<now, ticks, procs, cacheState, sessionVars, probe, render, fp>>

\* the timeout of execFileSync expires: the subprocess is killed, the call
\* throws ETIMEDOUT, the catch block goes on to the credential file
ExecKill(r) ==
  /\ kc[r].pc = "exec"
  /\ ExecTimeout[r] > 0
  /\ kc' = [kc EXCEPT ![r] = [@ EXCEPT !.pc = "file", !.killed = TRUE]]
  /\ UNCHANGED <<keychain, oauthFile, cachedCredentials,
                 pendingRefreshRequests, refreshPromise, res, roundTrips, eng>>
  /\ UNCHANGED <<now, ticks, procs, cacheState, sessionVars, probe, render, fp>>

\* getCredentialsFromFile ends: the token of the file, or null
CredentialFile(r, found) ==
  /\ kc[r].pc = "file"
  /\ kc' = [kc EXCEPT ![r] =
       [@ EXCEPT !.pc = "done",
                 !.result = IF found THEN [kind |-> "credentials"] ELSE Null]]
  /\ UNCHANGED <<keychain, oauthFile, cachedCredentials,
                 pendingRefreshRequests, refreshPromise, res, roundTrips, eng>>
  /\ UNCHANGED <<now, ticks, procs, cacheState, sessionVars, probe, render, fp>>

(***************************************************************************)
(* The usage engines of the other providers: fetchCodexUsage,              *)
(* fetchGeminiUsage, fetchZaiUsage                                         *)
(***************************************************************************)
Providers == {"codex", "gemini", "zai"}

IdleEngine ==
  [call |-> [c \in Calls |->
       [pc |-> "idle", result |-> Null, src |-> "-", joined |-> "",
        \* history of the call: no call of the process had ended when it
        \* began; the value fetched less than ttl before it looked into the
        \* cache; it issued the usage request
        concurrent |-> FALSE, warm |-> Null, net |-> FALSE]],
   \* codexCacheMap / geminiCacheMap / zaiCacheMap, pendingRequests and
   \* projectIdCacheMap, for the one credential in use
   cache |-> Null, pending |-> "", projectId |-> Null,
   \* history of the process: calls of loadCodeAssist and of the usage
   \* endpoint; history across processes: the last successful fetch
   lookups |-> 0, requests |-> 0, fetched |-> Null]

\* cached && (Date.now() - cached.timestamp) / 1000 < ttlSeconds
EntryValid(entry, ttlMs) == entry # Null /\ now - entry.timestamp < ttlMs

\* the memory cache, then the pending request, then a new request that is
\* registered in pendingRequests: the provider's record after call c, which
\* has its credential (and project id), went through them
CheckMemory(e, c) ==
  LET warm == IF EntryValid(e.fetched, DEFAULT_TTL_SECONDS * 1000)
              THEN e.fetched.data ELSE Null
  IN IF EntryValid(e.cache, DEFAULT_TTL_SECONDS * 1000)
     THEN [e EXCEPT !.call[c].pc = "done", !.call[c].result = e.cache.data,
                    !.call[c].src = "mem", !.call[c].warm = warm]
     ELSE IF e.pending # ""
     THEN [e EXCEPT !.call[c].pc = "join", !.call[c].joined = e.pending,
                    !.call[c].warm = warm]
     ELSE [e EXCEPT !.call[c].pc = "net", !.call[c].net = TRUE,
                    !.call[c].warm = warm,
                    !.pending = c, !.requests = @ + 1]

\* fetchXUsage is called: Codex and Gemini await their credentials; z.ai
\* takes base URL and token from the environment and goes on at once.  The
\* engines share no state: a behaviour follows one of them
UsageBegin(prov, c) ==
  /\ \A q \in Providers \ {prov} : eng[q] = IdleEngine
  /\ eng[prov].call[c].pc = "idle"
  /\ LET e == [eng[prov] EXCEPT
                 !.call[c].concurrent =
                   \A d \in Calls : eng[prov].call[d].pc # "done"]
     IN eng' = [eng EXCEPT ![prov] =
          IF prov = "zai" THEN CheckMemory(e, c)
          ELSE [e EXCEPT !.call[c].pc = "creds"]]
  /\ UNCHANGED <<keychain, oauthFile, cachedCredentials,
                 pendingRefreshRequests, refreshPromise, res, roundTrips, kc>>
  /\ UNCHANGED <<now, ticks, procs, cacheState, sessionVars, probe, render, fp>>

\* getCodexAuth / getValidCredentials ends: without credentials the call
\* returns null; Codex goes on to its cache, Gemini to getProjectId, which
\* returns the project of the environment or awaits getGeminiSettings
UsageCredentials(prov, c, found) ==
  /\ eng[prov].call[c].pc = "creds"
  /\ eng' = [eng EXCEPT ![prov] =
       IF ~found THEN [@ EXCEPT !.call[c].pc = "done", !.call[c].src = "none"]
       ELSE IF prov = "codex" THEN CheckMemory(@, c)
       ELSE [@ EXCEPT !.call[c].pc = "settings"]]
  /\ UNCHANGED <<keychain, oauthFile, cachedCredentials,
                 pendingRefreshRequests, refreshPromise, res, roundTrips, kc>>
  /\ UNCHANGED <<now, ticks, procs, cacheState, sessionVars, probe, render, fp>>

\* getGeminiSettings ends: a configured cloudaicompanionProject or a valid
\* projectIdCacheMap entry is the project id; otherwise loadCodeAssist is
\* requested
ProjectSettings(c, configured) ==
  /\ eng.gemini.call[c].pc = "settings"
  /\ eng' = [eng EXCEPT !.gemini =
       IF configured \/ EntryValid(@.projectId, PROJECT_ID_CACHE_TTL_MS)
       THEN CheckMemory(@, c)
       ELSE [@ EXCEPT !.call[c].pc = "lookup", !.lookups = @ + 1]]
  /\ UNCHANGED <<keychain, oauthFile, cachedCredentials,
                 pendingRefreshRequests, refreshPromise, res, roundTrips, kc>>
  /\ UNCHANGED <<now, ticks, procs, cacheState, sessionVars, probe, render, fp>>

\* the loadCodeAssist request ends: a project id is cached and the call
\* goes on; otherwise fetchGeminiUsage returns null
ProjectLookup(c, ok) ==
  /\ eng.gemini.call[c].pc = "lookup"
  /\ eng' = [eng EXCEPT !.gemini =
       IF ok
       THEN CheckMemory([@ EXCEPT !.projectId =
                           [data |-> "project", timestamp |-> now]], c)
       ELSE [@ EXCEPT !.call[c].pc = "done", !.call[c].src = "none"]]
  /\ UNCHANGED <<keychain, oauthFile, cachedCredentials,
                 pendingRefreshRequests, refreshPromise, res, roundTrips, kc>>
  /\ UNCHANGED <<now, ticks, procs, cacheState, sessionVars, probe, render, fp>>

\* the usage request ends: limits go into the memory cache and nowhere else;
\* a failure gives null; the finally block deletes the pending entry
UsageRespond(prov, c, ok) ==
  /\ eng[prov].call[c].pc = "net"
  /\ LET limits == [kind |-> "usage", of |-> prov, at |-> now]
     IN eng' = [eng EXCEPT ![prov] =
          IF ok
          THEN [@ EXCEPT !.call[c].pc = "done", !.call[c].src = "net",
                         !.call[c].result = limits,
                         !.cache = [data |-> limits, timestamp |-> now],
                         !.fetched = [data |-> limits, timestamp |-> now],
                         !.pending = ""]
          ELSE [@ EXCEPT !.call[c].pc = "done", !.call[c].src = "net",
                         !.pending = ""]]
  /\ UNCHANGED <<keychain, oauthFile, cachedCredentials,
                 pendingRefreshRequests, refreshPromise, res, roundTrips, kc>>
  /\ UNCHANGED <<now, ticks, procs, cacheState, sessionVars, probe, render, fp>>

\* return pending: the call ends with what the owner's request gave
UsageJoin(prov, c) ==
  /\ eng[prov].call[c].pc = "join"
  /\ eng[prov].call[eng[prov].call[c].joined].pc = "done"
  /\ eng' = [eng EXCEPT ![prov] =
       [@ EXCEPT !.call[c].pc = "done", !.call[c].src = "join",
                 !.call[c].result =
                   eng[prov].call[eng[prov].call[c].joined].result]]
  /\ UNCHANGED <<keychain, oauthFile, cachedCredentials,
                 pendingRefreshRequests, refreshPromise, res, roundTrips, kc>>
  /\ UNCHANGED <<now, ticks, procs, cacheState, sessionVars, probe, render, fp>>

\* the render ends, the process exits; the next render is a new process,
\* whose maps are empty
UsageRestart(prov) ==
  /\ procs < MaxProcs
  /\ \A c \in Calls : eng[prov].call[c].pc \in {"idle", "done"}
  /\ \E c \in Calls : eng[prov].call[c].pc = "done"
  /\ procs' = procs + 1
  /\ eng' = [eng EXCEPT ![prov] =
       [IdleEngine EXCEPT !.fetched = eng[prov].fetched]]
  /\ UNCHANGED <<keychain, oauthFile, cachedCredentials,
                 pendingRefreshRequests, refreshPromise, res, roundTrips, kc>>
  /\ UNCHANGED <<now, ticks, cacheState, sessionVars, probe, render, fp>>

ResolverIdle ==
  /\ kc = [r \in DOMAIN ExecTimeout |-> IdleKc]
  /\ eng = [prov \in Providers |-> IdleEngine]
  /\ keychain = Null
  /\ oauthFile = [raw |-> NoFile, mtime |-> 1]
  /\ cachedCredentials = Null
  /\ pendingRefreshRequests = NoSaved
  /\ refreshPromise = [c \in Resolvers |-> Unsettled]
  /\ res = [c \in Resolvers |-> IdleRes]
  /\ roundTrips = 0

(***************************************************************************)
(* One render: main of scripts/statusline.ts and the widget layer          *)
(***************************************************************************)
Warning == "warning"

\* the widgets of the rendered line, in the order of the line
WidgetLine == <<"cost", "rateLimit5h", "sessionDuration", "geminiUsage">>
WidgetIds == {WidgetLine[i] : i \in 1..Len(WidgetLine)}

\* how getData of a widget can end.  cost reads stdin; rateLimit5h reads
\* ctx.rateLimits; sessionDuration awaits getSessionStartTime, which returns
\* a start time also when the session file cannot be read or written;
\* geminiUsage is not installed, gets usage, gets null, or the credential
\* resolver throws
GetDataOutcomes(w) ==
  CASE w = "cost" -> {"data"}
    [] w = "rateLimit5h" -> {"data"}
    [] w = "sessionDuration" -> {"data", "iofailed"}
    [] w = "geminiUsage" -> {"none", "data", "null", "throws"}

\* renderWidget: the output of the widget, or "" for the null result
RenderWidget(w, outcome, rateLimits) ==
  CASE w = "cost" -> "cost"
    [] w = "rateLimit5h" -> IF rateLimits = Null THEN Warning ELSE "5h"
    [] w = "sessionDuration" -> "session"
    [] w = "geminiUsage" ->
         CASE outcome = "data" -> "gemini"
           [] outcome = "null" -> "gemini-warning"
           [] outcome \in {"none", "throws"} -> ""

IdleRender ==
  [pc |-> "idle", rateLimits |-> Null,
   results |-> [w \in WidgetIds |-> "pending"], out |-> <<>>,
   \* history of this render
   stdin |-> FALSE, token |-> NoToken, rejected |-> FALSE,
   failed |-> {}]

\* main: loadConfig, readStdin; without stdin the warning glyph is printed;
\* else fetchUsageLimits is called
MainStart(stdinOk) ==
  /\ render.pc = "idle"
  /\ render' = IF stdinOk
               THEN [render EXCEPT !.pc = "fetch", !.stdin = TRUE]
               ELSE [render EXCEPT !.pc = "done", !.out = <<Warning>>]
  /\ UNCHANGED <<now, ticks, procs, cacheState, sessionVars, probe,
                 resolverVars, fp>>

\* fetchUsageLimits settles.  With a token, hashToken(token) runs before any
\* try block: for a token crypto does not accept, the call rejects, main
\* rejects and main().catch prints the warning glyph.  Otherwise the result
\* is the limits or null, and the widgets of the line are started
MainFetch(token, limits) ==
  /\ render.pc = "fetch"
  /\ render' =
       \* hash.update(data) of crypto throws a TypeError for a number
       IF token # NoToken /\ token = NumberToken
       THEN [render EXCEPT !.pc = "done", !.token = token,
               !.rejected = TRUE, !.out = <<Warning>>]
       ELSE [render EXCEPT !.pc = "widgets", !.token = token,
               !.rateLimits = limits]
  /\ UNCHANGED <<now, ticks, procs, cacheState, sessionVars, probe,
                 resolverVars, fp>>

\* renderWidget(w) settles, in any order under Promise.all: an exception of
\* getData is caught and gives null
WidgetSettle(w, outcome) ==
  /\ render.pc = "widgets"
  /\ render.results[w] = "pending"
  /\ render' = [render EXCEPT
       !.results[w] = RenderWidget(w, outcome, render.rateLimits),
       !.failed = IF outcome \in {"iofailed", "null", "throws"}
                  THEN @ \cup {w} ELSE @]
  /\ UNCHANGED <<now, ticks, procs, cacheState, sessionVars, probe,
                 resolverVars, fp>>

RECURSIVE Outputs(_, _)
\* results.filter(r => r !== null && r.output.length > 0).map(r => r.output)
Outputs(results, i) ==
  IF i > Len(WidgetLine) THEN <<>>
  ELSE (IF results[WidgetLine[i]] = "" THEN <<>>
        ELSE <<results[WidgetLine[i]]>>) \o Outputs(results, i + 1)

\* Promise.all has settled: the line is joined and printed
MainPrint ==
  /\ render.pc = "widgets"
  /\ \A w \in WidgetIds : render.results[w] # "pending"
  /\ render' = [render EXCEPT !.pc = "done",
                  !.out = Outputs(render.results, 1)]
  /\ UNCHANGED <<now, ticks, procs, cacheState, sessionVars, probe,
                 resolverVars, fp>>

\* the characters of the tokens of the model
Chars ==
  [t1 |-> <<"t", "1">>, t2 |-> <<"t", "2">>,
   g1 |-> <<"g", "1">>, g2 |-> <<"g", "2">>, g3 |-> <<"g", "3">>]

\* the two secrets hash.test.ts expects different results for
SpotChecks ==
  {<<"t", "o", "k", "e", "n", "-", "a">>,
   <<"t", "o", "k", "e", "n", "-", "b">>}

IdleHash(s1, s2) ==
  [secret |-> <<s1, s2>>, hash |-> <<<<>>, <<>>>>, called |-> {}]

\* one call hashToken(secret[k])
HashCall(k) ==
  /\ k \notin fp.called
  /\ fp' = [fp EXCEPT !.called = @ \cup {k},
                      !.hash[k] = Fingerprint(fp.secret[k])]
  /\ UNCHANGED <<now, ticks, procs, cacheState, sessionVars, probe,
                 resolverVars, render>>

CacheIdle ==
  /\ usageCacheMap = [h \in {} |-> 0]
  /\ pendingRequests = [h \in {} |-> 0]
  /\ lastTokenHash = NoHash
  /\ lastCleanupTime = 0
  /\ cacheDirMode = 0
  /\ cacheFiles = [f \in {} |-> 0]
  /\ call = [c \in Calls |-> IdleCall]
  /\ promise = [c \in Calls |-> Unsettled]
  /\ cleanup = IdleCleanup
  /\ saved = NoSaved
  /\ fetched = NoSaved

Init ==
  /\ now = StartTime
  /\ ticks = 0
  /\ procs = 1
  /\ account \in SignedIn
  /\ cred \in {account, NoToken}
  /\ CacheIdle
  /\ SessionIdle
  /\ probe = IdleProbe
  /\ ResolverIdle
  /\ render = IdleRender
  /\ fp = IdleHash(<<>>, <<>>)

Next ==
  \/ \E c \in Calls : Begin(c)
  \/ \E c \in Calls : DiskRead(c)
  \/ \E c \in Calls : DiskLoaded(c)
  \/ \E c \in Calls : FallbackLoaded(c)
  \/ \E c \in Calls : Join(c)
  \/ \E c \in Calls, outcome \in NetOutcomes : NetRespond(c, outcome)
  \/ \E c \in Calls, ok \in BOOLEAN : EnsureCacheDir(c, ok)
  \/ \E c \in Calls, w \in WriteOutcomes : SaveFileCache(c, w)
  \/ CleanupSweep
  \/ Restart
  \/ Tick(ShortStep)
  \/ \E acct \in SignedIn, readable \in BOOLEAN : SetCred(acct, readable)

Spec == Init /\ [][Next]_vars

InitSession ==
  /\ now = StartTime
  /\ ticks = 0
  /\ procs = 1
  /\ cred = NoToken
  /\ account \in SignedIn
  /\ CacheIdle
  /\ SessionIdle
  /\ probe = IdleProbe
  /\ ResolverIdle
  /\ render = IdleRender
  /\ fp = IdleHash(<<>>, <<>>)

NextSession ==
  \/ \E p \in Procs, sessionId \in SessionIds : GetSessionStartTime(p, sessionId)
  \/ \E p \in Procs : ReadSession(p)
  \/ \E p \in Procs, ok \in BOOLEAN : MkdirSession(p, ok)
  \/ \E p \in Procs, ok \in BOOLEAN : OpenSession(p, ok)
  \/ \E p \in Procs, ok \in BOOLEAN : WriteSession(p, ok)
  \/ \E p \in Procs : RereadSession(p)
  \/ \E p \in Procs : CleanupSessions(p)
  \/ \E p \in Procs : ExitProcess(p)
  \/ \E d \in {ShortStep, SESSION_MAX_AGE_SECONDS * 1000} : SessionTick(d)

SpecSession == InitSession /\ [][NextSession]_vars

\* Several callers of getSessionStartTime in one process, next to the other
\* process that renders the same session.
Rendering == "p1"

NextCallers ==
  \/ \E p \in Procs, sessionId \in SessionIds : GetSessionStartTime(p, sessionId)
  \/ \E w \in Widgets : JoinSession(Rendering, w)
  \/ \E w \in Widgets : ResumeSession(Rendering, w)
  \/ \E w \in Widgets : LaterCall(Rendering, w)
  \/ \E p \in Procs : ReadSession(p)
  \/ \E p \in Procs, ok \in BOOLEAN : MkdirSession(p, ok)
  \/ \E p \in Procs, ok \in BOOLEAN : OpenSession(p, ok)
  \/ \E p \in Procs, ok \in BOOLEAN : WriteSession(p, ok)
  \/ \E p \in Procs : RereadSession(p)
  \/ \E p \in Procs : CleanupSessions(p)
  \/ SessionTick(ShortStep)

SpecCallers == InitSession /\ [][NextCallers]_vars

\* Processes of one session, one of which is killed while it creates the
\* session file; no file operation fails.
NextCrash ==
  \/ \E p \in Procs : GetSessionStartTime(p, <<"s", "1">>)
  \/ \E p \in Procs : ReadSession(p)
  \/ \E p \in Procs : MkdirSession(p, TRUE)
  \/ \E p \in Procs : OpenSession(p, TRUE)
  \/ \E p \in Procs : WriteSession(p, TRUE)
  \/ \E p \in Procs : RereadSession(p)
  \/ \E p \in Procs : CleanupSessions(p)
  \/ \E p \in Procs : KillSession(p)
  \/ SessionTick(ShortStep)

SpecCrash == InitSession /\ [][NextCrash]_vars

\* Renders of three sessions, one of which was started more than a day ago:
\* its file is older than the retention window.  No file operation fails.
InitSweep ==
  /\ now = StartTime + SESSION_MAX_AGE_SECONDS * 1000
  /\ ticks = 0
  /\ procs = 1
  /\ cred = NoToken
  /\ account \in SignedIn
  /\ CacheIdle
  /\ sess = [p \in Procs |-> IdleSess]
  /\ sessionCache = [p \in Procs |-> NoSaved]
  /\ sessLastCleanup = [p \in Procs |-> 0]
  /\ sessCleanup = [p \in Procs |-> IdleSessCleanup]
  /\ sessDirExists = TRUE
  /\ sessFiles = [f \in {SessionFile(<<"s", "1">>)} |->
                    [content |-> SessionJson(StartTime - ShortStep),
                     mtime |-> StartTime - ShortStep]]
  /\ sessFirst = [f \in {SessionFile(<<"s", "1">>)} |-> StartTime - ShortStep]
  /\ sessCallers = [p \in Procs |-> [w \in Widgets |-> IdleCaller]]
  /\ probe = IdleProbe
  /\ ResolverIdle
  /\ render = IdleRender
  /\ fp = IdleHash(<<>>, <<>>)

NextSweep ==
  \/ \E p \in Procs, n \in {"1", "2", "3"} : GetSessionStartTime(p, <<"s", n>>)
  \/ \E p \in Procs : ReadSession(p)
  \/ \E p \in Procs : MkdirSession(p, TRUE)
  \/ \E p \in Procs : OpenSession(p, TRUE)
  \/ \E p \in Procs : WriteSession(p, TRUE)
  \/ \E p \in Procs : RereadSession(p)
  \/ \E p \in Procs : SweepReaddir(p)
  \/ \E p \in Procs : SweepStat(p)
  \/ \E p \in Procs : SweepUnlink(p)
  \/ \E p \in Procs : ExitProcess(p)
  \/ SessionTick(ShortStep)

SpecSweep == InitSweep /\ [][NextSweep]_vars

\* a cache directory that holds files of every age when the process starts
InitCleanup ==
  /\ now = StartTime
  /\ ticks = 0
  /\ procs = 1
  /\ account \in SignedIn
  /\ cred = account
  /\ usageCacheMap = [h \in {} |-> 0]
  /\ pendingRequests = [h \in {} |-> 0]
  /\ lastTokenHash = NoHash
  /\ lastCleanupTime = 0
  /\ cacheDirMode = 448
  \* CACHE_DIR holds the cache files of two accounts, the directory of the
  \* session store and a file that only starts like a cache file; their
  \* modification times are two maximum ages ago, exactly one maximum age
  \* ago, or now
  /\ cacheFiles \in
       [{getCacheFilePath(hashToken(t)) : t \in Tokens}
          \cup {<<"sessions">>,
                <<"cache-", "628b49d96dcde97a", ".json", ".tmp">>}
        -> [content : {<<>>},
            mtime : {StartTime - 2 * (CACHE_MAX_AGE_SECONDS * 1000),
                     StartTime - CACHE_MAX_AGE_SECONDS * 1000,
                     StartTime},
            mode : {384}]]
  /\ call = [c \in Calls |-> IdleCall]
  /\ promise = [c \in Calls |-> Unsettled]
  /\ cleanup = IdleCleanup
  /\ saved = NoSaved
  /\ fetched = NoSaved
  /\ SessionIdle
  /\ probe = IdleProbe
  /\ ResolverIdle
  /\ render = IdleRender
  /\ fp = IdleHash(<<>>, <<>>)

NextCleanup ==
  \/ \E t \in Tokens : WriteAndCleanup(hashToken(t))
  \/ \E t \in Tokens : OtherProcessWrite(hashToken(t))
  \/ \E ok \in BOOLEAN : CleanupReaddir(ok)
  \/ CleanupLoop
  \/ \E ok \in BOOLEAN : CleanupStat(ok)
  \/ \E ok \in BOOLEAN : CleanupUnlink(ok)
  \/ \E d \in {ShortStep, CLEANUP_INTERVAL_MS} : Tick(d)

SpecCleanup == InitCleanup /\ [][NextCleanup]_vars

\* the usage cache while the user switches between two accounts; the clock
\* stands still and the cache directory can be created
InitAccounts ==
  /\ now = StartTime
  /\ ticks = 0
  /\ procs = 1
  /\ account \in Tokens
  /\ cred \in {account, NoToken}
  /\ CacheIdle
  /\ SessionIdle
  /\ probe = IdleProbe
  /\ ResolverIdle
  /\ render = IdleRender
  /\ fp = IdleHash(<<>>, <<>>)

NextAccounts ==
  \/ \E c \in Calls : Begin(c)
  \/ \E c \in Calls : DiskRead(c)
  \/ \E c \in Calls : DiskLoaded(c)
  \/ \E c \in Calls : FallbackLoaded(c)
  \/ \E c \in Calls : Join(c)
  \/ \E c \in Calls, outcome \in {"ok", "neterror"} : NetRespond(c, outcome)
  \/ \E c \in Calls : EnsureCacheDir(c, TRUE)
  \/ \E c \in Calls, w \in {"ok", "fail"} : SaveFileCache(c, w)
  \/ CleanupSweep
  \/ Restart
  \/ \E acct \in Tokens, readable \in BOOLEAN : SetCred(acct, readable)

SpecAccounts == InitAccounts /\ [][NextAccounts]_vars

InitSanitize ==
  /\ now = StartTime
  /\ ticks = 0
  /\ procs = 1
  /\ cred = NoToken
  /\ account \in SignedIn
  /\ CacheIdle
  /\ SessionIdle
  /\ probe \in {[IdleProbe EXCEPT !.pc = "in", !.sessionId = id] :
                  id \in UNION {[1..n -> {"a", "-", "_", ".", "/"}] :
                                  n \in 0..MaxIdLen} \cup {Traversal}}
  /\ ResolverIdle
  /\ render = IdleRender
  /\ fp = IdleHash(<<>>, <<>>)

NextSanitize == GetSessionFile

SpecSanitize == InitSanitize /\ [][NextSanitize]_vars

\* Two calls of getValidCredentials in one process, over the contents the
\* keychain entry and oauth_creds.json can have.
InitResolver ==
  /\ now = StartTime
  /\ ticks = 0
  /\ procs = 1
  /\ cred = NoToken
  /\ account \in SignedIn
  /\ CacheIdle
  /\ SessionIdle
  /\ probe = IdleProbe
  \* the keychain entry: Null on every platform but darwin and when the
  \* entry is missing or unusable
  /\ keychain \in {Null, Credentials("g1", "rt", PastExpiry),
                   Credentials("g1", NoRefresh, NoExpiry)}
  \* oauth_creds.json: missing, malformed, without access_token, or with one
  /\ oauthFile \in
       [raw : {NoFile, [kind |-> "malformed"], Json("", NoRefresh, NoExpiry)}
                \cup {Json(a, r, e) : a \in {"g1", NumberToken},
                                      r \in {"rt", NoRefresh},
                                      e \in {NoExpiry, PastExpiry}},
        mtime : {1}]
  /\ cachedCredentials = Null
  /\ pendingRefreshRequests = NoSaved
  /\ refreshPromise = [c \in Resolvers |-> Unsettled]
  /\ res = [c \in Resolvers |-> IdleRes]
  /\ roundTrips = 0
  /\ kc = [r \in DOMAIN ExecTimeout |-> IdleKc]
  /\ eng = [prov \in Providers |-> IdleEngine]
  /\ render = IdleRender
  /\ fp = IdleHash(<<>>, <<>>)

NextResolver ==
  \/ \E c \in Resolvers : GetValidCredentials(c)
  \/ \E c \in Resolvers : OauthStat(c)
  \/ \E c \in Resolvers : OauthRead(c)
  \/ \E c \in Resolvers : OauthLoaded(c)
  \/ \E c \in Resolvers,
          outcome \in {"ok", "non2xx", "noaccesstoken", "neterror"} :
       RefreshRespond(c, outcome)
  \/ \E c \in Resolvers, ok \in BOOLEAN : RefreshSave(c, ok)
  \/ \E c \in Resolvers : RefreshJoined(c)

SpecResolver == InitResolver /\ [][NextResolver]_vars

\* One render of the status line, from the idle state.
NextRender ==
  \/ \E stdinOk \in BOOLEAN : MainStart(stdinOk)
  \* the credential resolver hands fetchUsageLimits nothing, a token, or an
  \* accessToken that is a number
  \/ \E token \in {NoToken, "t1", NumberToken},
          limits \in {Null, Limits(ApiBody("t1", 1))} :
       MainFetch(token, limits)
  \/ \E w \in WidgetIds : \E outcome \in GetDataOutcomes(w) :
       WidgetSettle(w, outcome)
  \/ MainPrint

SpecRender == InitSession /\ [][NextRender]_vars

\* Two calls of hashToken: on one secret twice, or on a secret and on one of
\* the spot checks.
InitHash ==
  /\ now = StartTime
  /\ ticks = 0
  /\ procs = 1
  /\ cred = NoToken
  /\ account \in SignedIn
  /\ CacheIdle
  /\ SessionIdle
  /\ probe = IdleProbe
  /\ ResolverIdle
  /\ render = IdleRender
  \* the secrets of hash.test.ts (the last one without its closing backquote,
  \* which a string of this module cannot hold) and the tokens of the model
  /\ LET Secrets ==
       {<<"t", "e", "s", "t", "-", "t", "o", "k", "e", "n", "-",
          "1", "2", "3", "4", "5">>,
        <<"t", "o", "k", "e", "n", "-", "a">>,
        <<"t", "o", "k", "e", "n", "-", "b">>,
        <<"s", "o", "m", "e", "-", "o", "a", "u", "t", "h", "-",
          "t", "o", "k", "e", "n">>,
        <<"t", "e", "s", "t", "-", "t", "o", "k", "e", "n">>,
        <<>>,
        <<"!", "@", "#", "$", "%", "^", "&", "*", "(", ")", "_", "+", "-", "=",
          "[", "]", "{", "}", "|", ";", ":", ",", ".", "<", ">", "?", "/", "~">>}
       \cup {Chars[t] : t \in DOMAIN Chars}
     IN \E s1 \in Secrets : \E s2 \in {s1} \cup SpotChecks :
          fp = IdleHash(s1, s2)

NextHash == \E k \in 1..2 : HashCall(k)

SpecHash == InitHash /\ [][NextHash]_vars

\* One call of fetchUsageLimits and one call of getSessionStartTime in one
\* process, in either order: both create ~/.cache/claude-dashboard.
NextPermissions ==
  \/ Begin("A")
  \/ DiskRead("A")
  \/ DiskLoaded("A")
  \/ \E outcome \in {"ok", "neterror"} : NetRespond("A", outcome)
  \/ \E ok \in BOOLEAN : EnsureCacheDir("A", ok)
  \/ \E w \in WriteOutcomes : SaveFileCache("A", w)
  \/ CleanupSweep
  \/ \E sessionId \in SessionIds : GetSessionStartTime(Rendering, sessionId)
  \/ ReadSession(Rendering)
  \/ \E ok \in BOOLEAN : MkdirSession(Rendering, ok)
  \/ \E ok \in BOOLEAN : OpenSession(Rendering, ok)
  \/ \E ok \in BOOLEAN : WriteSession(Rendering, ok)
  \/ CleanupSessions(Rendering)

SpecPermissions == Init /\ [][NextPermissions]_vars

\* A process that lives longer than the window of the degraded fallback.
NextFallback ==
  \/ \E c \in Calls : Begin(c)
  \/ \E c \in Calls : DiskRead(c)
  \/ \E c \in Calls : DiskLoaded(c)
  \/ \E c \in Calls : FallbackLoaded(c)
  \/ \E c \in Calls : NetRespond(c, "ok")
  \/ \E c \in Calls : EnsureCacheDir(c, TRUE)
  \/ \E c \in Calls, w \in WriteOutcomes : SaveFileCache(c, w)
  \/ CleanupSweep
  \/ Restart
  \/ \E d \in {ShortStep, DEFAULT_TTL_SECONDS * FALLBACK_TTL_FACTOR * 1000} :
       Tick(d)
  \/ \E acct \in SignedIn, readable \in BOOLEAN : SetCred(acct, readable)

SpecFallback == Init /\ [][NextFallback]_vars

\* The calls of one process against a server that may answer, answer in part,
\* or not at all.  The timer and the file system do their steps; the server
\* owes none.
NextTimeout ==
  \/ \E c \in Calls : Begin(c)
  \/ \E c \in Calls : DiskRead(c)
  \/ \E c \in Calls : DiskLoaded(c)
  \/ \E c \in Calls : Join(c)
  \/ \E c \in Calls : NetHeaders(c)
  \/ \E c \in Calls, outcome \in NetOutcomes : NetRespond(c, outcome)
  \/ \E c \in Calls : AbortTimer(c)
  \/ \E c \in Calls, ok \in BOOLEAN : EnsureCacheDir(c, ok)
  \/ \E c \in Calls, w \in WriteOutcomes : SaveFileCache(c, w)
  \/ CleanupSweep

\* The usage engines of the Codex, Gemini and z.ai clients: calls of one
\* credential in a process, and the next process.
NextEngines ==
  \/ \E prov \in Providers, c \in Calls : UsageBegin(prov, c)
  \/ \E prov \in Providers, c \in Calls, found \in BOOLEAN :
       UsageCredentials(prov, c, found)
  \/ \E c \in Calls, configured \in BOOLEAN : ProjectSettings(c, configured)
  \/ \E c \in Calls, ok \in BOOLEAN : ProjectLookup(c, ok)
  \/ \E prov \in Providers, c \in Calls, ok \in BOOLEAN :
       UsageRespond(prov, c, ok)
  \/ \E prov \in Providers, c \in Calls : UsageJoin(prov, c)
  \/ \E prov \in Providers : UsageRestart(prov)
  \/ Tick(ShortStep)

SpecEngines == InitSession /\ [][NextEngines]_vars

\* The resolvers of a process against a secret store that may answer, fail,
\* or hang.  The timeout of a subprocess and the file system do their steps;
\* the subprocess owes none.
NextKeychain ==
  \/ \E r \in DOMAIN ExecTimeout, platform \in {"darwin", "linux"} :
       Resolve(r, platform)
  \/ \E r \in DOMAIN ExecTimeout, out \in {"token", "empty", "error"} :
       ExecExit(r, out)
  \/ \E r \in DOMAIN ExecTimeout : ExecKill(r)
  \/ \E r \in DOMAIN ExecTimeout, found \in BOOLEAN : CredentialFile(r, found)

SpecKeychain ==
  /\ InitSession
  /\ [][NextKeychain]_vars
  /\ \A r \in DOMAIN ExecTimeout :
       /\ WF_vars(ExecKill(r))
       /\ WF_vars(\E found \in BOOLEAN : CredentialFile(r, found))

SpecTimeout ==
  /\ Init
  /\ [][NextTimeout]_vars
  /\ \A c \in Calls :
       /\ WF_vars(AbortTimer(c))
       /\ WF_vars(\E ok \in BOOLEAN : EnsureCacheDir(c, ok))
       /\ WF_vars(\E w \in WriteOutcomes : SaveFileCache(c, w))

(***************************************************************************)
(* Properties of the usage cache engine                                    *)
(***************************************************************************)
TtlMs == DEFAULT_TTL_SECONDS * 1000

Failures == NetOutcomes \ {"ok"}

\* C1: concurrent fetchUsageLimits calls for the same credential, issued when
\* neither tier holds a valid entry, cause exactly one network call and all
\* receive the same result; no fingerprint ever has two requests in flight
C1_SingleFlight ==
  /\ \A c, d \in Calls :
       (/\ c # d
        /\ call[c].pc = "done" /\ call[d].pc = "done"
        /\ call[d].overlap
        /\ call[c].token # NoToken /\ call[c].token = call[d].token
        /\ call[c].cold /\ call[d].cold)
       => /\ call[c].netBy + call[d].netBy = 1
          /\ call[c].result = call[d].result
  /\ \A t \in Tokens :
       Cardinality({c \in Calls : /\ call[c].pc = "net"
                                  /\ call[c].tokenHash = hashToken(t)}) <= 1

C5_TtlExpiry ==
  \A c \in Calls :
    /\ (call[c].pc = "done" /\ call[c].src \in {"mem", "disk"})
       => call[c].retAge < TtlMs
    /\ (/\ call[c].pc = "done"
        /\ call[c].token # NoToken
        /\ call[c].memSeen \in {"absent", "stale"}
        /\ call[c].diskSeen \in {"absent", "corrupt", "stale"}
        /\ "stale" \in {call[c].memSeen, call[c].diskSeen})
       => \/ call[c].src = "net" /\ call[c].netBy = 1
          \/ /\ call[c].src = "join" /\ call[c].netBy = 0
             /\ call[call[c].joined].netBy = 1

\* both tiers held an entry of age ttl or more and the call went to the network
C5_Witness ==
  \E c \in Calls :
    /\ call[c].pc = "done"
    /\ call[c].memSeen = "stale" /\ call[c].diskSeen = "stale"
    /\ call[c].src = "net"

C7_DegradedFallback ==
  \A c \in Calls :
    (call[c].token = NoToken /\ call[c].pc # "idle")
    => /\ call[c].netBy = 0
       /\ (call[c].hadMem # Null)
          => (call[c].pc = "done" /\ call[c].result = call[c].hadMem)

\* a value older than ttl served by the fallback
C7_Witness ==
  \E c \in Calls :
    /\ call[c].pc = "done" /\ call[c].token = NoToken
    /\ call[c].src = "fallback-mem" /\ call[c].result # Null
    /\ call[c].retAge >= TtlMs

\* C8: a failed network request makes the call return null, nothing is thrown
\* and a call issues at most one network request
C8_FailureIsNull ==
  \A c \in Calls :
    /\ call[c].netBy <= 1
    /\ ~call[c].threw
    /\ (call[c].pc = "done" /\ call[c].outcome \in Failures)
       => call[c].result = Null
    /\ (/\ call[c].pc = "done" /\ call[c].src = "join"
        /\ call[call[c].joined].outcome \in Failures)
       => call[c].result = Null

\* a request that ended with an unreadable body was returned as null
C8_Witness ==
  \E c \in Calls :
    /\ call[c].pc = "done" /\ call[c].outcome = "malformed"
    /\ call[c].netBy = 1 /\ call[c].result = Null

\* C9: a registration in pendingRequests belongs to a call whose request has
\* not settled; once no call is in flight the map is empty
C9_PendingReleased ==
  /\ \A h \in DOMAIN pendingRequests :
       /\ call[pendingRequests[h]].pc \in {"net", "mkdir", "write"}
       /\ call[pendingRequests[h]].tokenHash = h
       /\ promise[pendingRequests[h]] = Unsettled
  /\ (\A c \in Calls : ~Active(c)) => DOMAIN pendingRequests = {}

\* after a failed request a later call of the process has a request in flight
C9_Witness ==
  \E c, d \in Calls :
    /\ call[c].pc = "done" /\ call[c].outcome \in Failures
    /\ c \in call[d].prev
    /\ call[d].pc = "net"
    /\ call[d].tokenHash = call[c].tokenHash
    /\ pendingRequests[call[d].tokenHash] = d

\* the account whose usage a value reports
AccountOf(data) == data.five_hour.acct

C12_CleanupBound ==
  /\ ~cleanup.failed =>
       \A r \in cleanup.unlinked :
         /\ Matches(r.name)
         /\ cleanup.now - r.mtime > CACHE_MAX_AGE_SECONDS * 1000
  /\ (cleanup.pc = "idle" /\ cleanup.scans # {} /\ ~cleanup.failed)
       => \A f \in DOMAIN cacheFiles : ~Expired(f, cleanup.now)

\* C13: two passes that scan the cache directory start at least one throttle
\* interval apart, whichever processes run them
C13_CleanupThrottle ==
  \A t1, t2 \in cleanup.scans :
    t1 < t2 => t2 - t1 >= CLEANUP_INTERVAL_MS

\* C14: within one process, the calls of getSessionStartTime for the session
\* share one request: getOrCreateSessionStartTimeImpl runs at most once and
\* creates the session file at most once, and every caller that has returned
\* (the one that started the request, those that awaited its pending promise
\* and those that called later) holds the same start time.
C14_SessionSingleFlight ==
  \A p \in Procs :
    /\ sess[p].runs <= 1
    /\ sess[p].creates <= 1
    /\ \A w \in Widgets :
         sessCallers[p][w].pc = "done" =>
           /\ sess[p].pc = "done"
           /\ sessCallers[p][w].result = sess[p].result
           /\ \A v \in Widgets :
                sessCallers[p][v].pc = "done" =>
                  sessCallers[p][v].result = sessCallers[p][w].result

\* one caller created the file, a second one awaited the pending promise, a
\* third one called later, and the first one called once more
C14_Witness ==
  \E p \in Procs, w, v \in Widgets :
    /\ sess[p].pc = "done" /\ sess[p].src = "cache"
    /\ sess[p].runs = 1 /\ sess[p].creates = 1
    /\ sessCallers[p][w].pc = "done" /\ sessCallers[p][w].src = "pending"
    /\ sessCallers[p][v].pc = "done" /\ sessCallers[p][v].src = "cache"

\* C15: two overlapping calls of the resolver that had to refresh the same
\* refresh credential, the first round trip to the token endpoint having
\* succeeded, made that one round trip between them and returned the same
\* credentials; no token hash ever has two refreshes in flight.
C15_RefreshSingleFlight ==
  /\ \A c, d \in Resolvers :
       (/\ c # d
        /\ res[c].pc = "done" /\ res[d].pc = "done"
        /\ res[c].overlap \/ res[d].overlap
        /\ res[c].needed # NoRefresh /\ res[c].needed = res[d].needed
        /\ res[c].cause = "refreshed" /\ res[c].first)
       => /\ res[c].trips + res[d].trips = 1
          /\ res[c].result = res[d].result
  /\ Cardinality({c \in Resolvers : res[c].pc \in {"refresh", "save"}}) <= 1

\* C16: a call of the resolver never ends with an exception, and when the
\* stored credentials are missing, unreadable, expired without a refresh
\* credential, or their refresh failed, it returns null.
C16_ResolverNeverThrows ==
  \A c \in Resolvers :
    res[c].pc = "done" =>
      /\ ~res[c].threw
      /\ res[c].cause \in {"nocreds", "norefresh", "failed"}
           => res[c].result = Null

\* C17: a render with a readable stdin always prints the output of every
\* widget whose own data did not fail, whatever failed in the usage cache, the
\* credential resolvers or the session store; and a render that was started
\* never ends without output.
C17_RenderCompletes ==
  render.pc = "done" =>
    /\ render.out # <<>>
    /\ render.stdin =>
         \A w \in WidgetIds \ render.failed :
           \/ render.results[w] = ""
           \/ \E i \in 1..Len(render.out) : render.out[i] = render.results[w]

\* C18: every cache file the program has created has mode 0600 and lies in
\* a cache directory of mode 0700, whichever of the usage cache and the
\* session store created the directory.
C18_OwnerOnly ==
  \A f \in DOMAIN cacheFiles :
    /\ cacheFiles[f].mode = 384
    /\ cacheDirMode = 448

\* C19: hashToken is a pure function of the secret: every result has exactly
\* HASH_LENGTH = 16 characters, all of them lowercase hexadecimal digits; two
\* calls on equal secrets give equal results; two calls on different secrets
\* of the spot checks give different results; and on the tokens of the model
\* the result is the value the cache engine uses as the fingerprint.
C19_FingerprintDeterminism ==
  /\ \A k \in fp.called :
       /\ Len(fp.hash[k]) = HASH_LENGTH
       /\ \A i \in 1..Len(fp.hash[k]) :
            fp.hash[k][i] \in {"0", "1", "2", "3", "4", "5", "6", "7",
                              "8", "9", "a", "b", "c", "d", "e", "f"}
       /\ \A t \in DOMAIN Chars :
            fp.secret[k] = Chars[t] => Joined(fp.hash[k]) = hashToken(t)
  /\ fp.called = {1, 2} =>
       /\ fp.secret[1] = fp.secret[2] => fp.hash[1] = fp.hash[2]
       /\ fp.secret[1] # fp.secret[2] => fp.hash[1] # fp.hash[2]

C19_Witness ==
  /\ fp.called = {1, 2}
  /\ fp.secret[1] \in SpotChecks
  /\ fp.secret[2] \in SpotChecks
  /\ fp.secret[1] # fp.secret[2]
  /\ fp.hash[1] # fp.hash[2]
  /\ {Joined(fp.hash[1]), Joined(fp.hash[2])}
       = {"a70bf50e531ce1a8", "49e2bb7eab54cf09"}

\* C29: when a call of getValidCredentials has refreshed the credential and
\* oauth_creds.json holds the new one, a call that begins after it returns
\* the new credential and starts no refresh.
C29_RefreshPersisted ==
  \A c, d \in Resolvers :
    (/\ res[c].pc = "done" /\ res[c].cause = "refreshed"
     /\ res[d].pc = "done" /\ c \in res[d].prev
     /\ oauthFile.raw = Json(res[c].result.accessToken,
                             res[c].result.refreshToken,
                             res[c].result.expiryDate))
    => /\ res[d].result = res[c].result
       /\ res[d].trips = 0

\* C28: when every call of fetchGeminiUsage in a process began before any
\* call of the process had ended, the process calls loadCodeAssist at most
\* once and retrieveUserQuota at most once.
C28_GeminiSingleFlight ==
  (\A c \in Calls : eng.gemini.call[c].pc = "idle"
                       \/ eng.gemini.call[c].concurrent)
  => /\ eng.gemini.lookups <= 1
     /\ eng.gemini.requests <= 1

\* C30: a call of a provider's engine that comes to its cache less than ttl
\* after a successful fetch for the credential, in the same or in a later
\* process, returns the fetched value and issues no request.
C30_EnginesPersist ==
  \A prov \in Providers, c \in Calls :
    (/\ eng[prov].call[c].pc = "done"
     /\ eng[prov].call[c].warm # Null)
    => /\ ~eng[prov].call[c].net
       /\ eng[prov].call[c].result = eng[prov].call[c].warm

\* C27: a step of the program leaves every session file as it is, except that
\* the process that has just created a file writes its record into the still
\* empty file, and that a file whose mtime lies more than
\* SESSION_MAX_AGE_SECONDS back is deleted.
C27_SessionFilesFrame ==
  [][\A f \in DOMAIN sessFiles :
       IF f \in DOMAIN sessFiles'
       THEN \/ sessFiles'[f] = sessFiles[f]
            \/ /\ sessFiles[f].content = <<>>
               /\ \E p \in Procs : sess[p].pc = "write" /\ sess[p].file = f
       ELSE sessFiles[f].mtime < now - SESSION_MAX_AGE_SECONDS * 1000]_vars

\* C26: when mkdir or the exclusive open fails for another reason than EEXIST,
\* the call ends with the start time it computed itself, that start time is
\* in the sessionCache of its process, and neither a session file nor the
\* sessionCache of another process has changed.
C26_CreationFailureFallsBack ==
  [][\A p \in Procs :
       (sess[p].pc \in {"mkdir", "open"} /\ sess'[p].pc = "done")
       => /\ sess'[p].ioFailed
          /\ sess'[p].src = "fallback"
          /\ sess'[p].result = sess[p].startTime
          /\ sess[p].safe \in DOMAIN sessionCache'[p]
          /\ sessionCache'[p][sess[p].safe] = sess[p].startTime
          /\ sessFiles' = sessFiles
          /\ \A q \in Procs \ {p} : sessionCache'[q] = sessionCache[q]]_vars

\* open(sessionFile, 'wx') failed in a process some time after it computed
\* its start time: the call returned that start time and there is no file
C26_Witness ==
  \E p \in Procs :
    /\ sess[p].pc = "done"
    /\ sess[p].src = "fallback"
    /\ sess[p].ioFailed
    /\ sess[p].creates = 0
    /\ sess[p].file \notin DOMAIN sessFiles
    /\ sessDirExists
    /\ sess[p].result < now
    /\ sessionCache[p][sess[p].safe] = sess[p].result

\* C20: with a resolved credential, a value returned from the memory tier or
\* from the disk tier was fetched from the network less than ttl before the
\* call began, also when the memory entry was promoted from the disk tier.
C20_StalenessBound ==
  \A c \in Calls :
    (/\ call[c].pc = "done"
     /\ call[c].token # NoToken
     /\ call[c].src \in {"mem", "disk"}
     /\ call[c].lastFetch # Null
     /\ call[c].result = call[c].lastFetch.data)
    => call[c].began - call[c].lastFetch.time < TtlMs

\* C21: when the credential does not resolve, the call makes no network
\* request; a value it serves for the last known fingerprint, from the memory
\* tier or from the disk tier, is younger than ttl x 10; and with no last
\* known fingerprint or no value it returns null.
C21_FallbackWindow ==
  \A c \in Calls :
    (call[c].token = NoToken /\ call[c].pc = "done")
    => /\ call[c].netBy = 0
       /\ call[c].src \in {"fallback-mem", "fallback-disk", "none"}
       /\ call[c].src = "none" => call[c].result = Null
       /\ call[c].src \in {"fallback-mem", "fallback-disk"}
            => call[c].retAge < TtlMs * FALLBACK_TTL_FACTOR

\* C22: two processes that call getSessionStartTime for a session whose file
\* a killed process left behind without a start time both finish with the
\* same start time.
C22_OrphanConverges ==
  \A p, q \in Procs :
    (/\ sess[p].pc = "done" /\ sess[q].pc = "done"
     /\ sess[p].orphan /\ sess[q].orphan
     /\ sess[p].file = sess[q].file)
    => sess[p].result = sess[q].result

\* C23: a call that has issued its network request returns, with its pending
\* request released, whatever the server does: answer, answer in part, or
\* never answer.
C23_NetworkBounded ==
  \A c \in Calls :
    (call[c].pc = "net")
      ~> (call[c].pc = "done"
          /\ (call[c].tokenHash \in DOMAIN pendingRequests
                => pendingRequests[call[c].tokenHash] # c))

\* C24: every resolver's call of the OS secret store carries a timeout of at
\* most 3 seconds, and a resolver that has started the call leaves it and
\* finishes, with the credential of the file or with null, whatever the
\* secret store does.
C24_KeychainBounded ==
  \A r \in DOMAIN ExecTimeout :
    /\ [](kc[r].pc = "exec" => ExecTimeout[r] \in 1..3000)
    /\ (kc[r].pc = "exec") ~> (kc[r].pc = "done")

\* C25: no failure of a disk step makes fetchUsageLimits throw or changes
\* what a call with a successful request returns: the call returns the limits
\* of its response, the memory tier holds an entry for the fingerprint while
\* the save is under way, and a call that found the cache file missing,
\* unreadable or malformed went on to the pending request or the network.
C25_DiskFailuresSwallowed ==
  \A c \in Calls :
    /\ ~call[c].threw
    /\ call[c].pc \in {"mkdir", "write"}
         => call[c].tokenHash \in DOMAIN usageCacheMap
    /\ (call[c].pc = "done" /\ call[c].outcome = "ok")
         => /\ call[c].src = "net"
            /\ call[c].result = call[c].limits
            /\ call[c].result # Null
    /\ (call[c].pc = "done" /\ call[c].diskSeen \in {"absent", "corrupt"})
         => call[c].src \in {"net", "join"}

\* a call read a partially written cache file, fetched successfully, and its
\* own save failed or was cut short: it returned the limits of the response
C25_Witness ==
  \E c \in Calls :
    /\ call[c].pc = "done"
    /\ call[c].diskSeen = "corrupt"
    /\ call[c].outcome = "ok"
    /\ call[c].result = call[c].limits
    /\ call[c].tokenHash \notin DOMAIN saved

(***************************************************************************)
(* Properties of the session state store                                   *)
(***************************************************************************)
\* C2: when two processes call getSessionStartTime for the same session id
\* concurrently and no session file exists, and no file operation of either
\* fails, both calls return the same value, and it is the one persisted
C2_ExclusiveCreation ==
  \A p, q \in Procs :
    (/\ p # q
     /\ sess[p].pc = "done" /\ sess[q].pc = "done"
     /\ sess[p].file = sess[q].file
     /\ sess[p].absent /\ sess[q].absent
     /\ sess[q].overlap
     /\ ~sess[p].ioFailed /\ ~sess[q].ioFailed)
    => /\ sess[p].result = sess[q].result
       /\ sess[p].file \in DOMAIN sessFiles
            => sessFiles[sess[p].file].content = SessionJson(sess[p].result)

\* C3: a call for a session id that begins after the id's record was
\* persisted, that finds nothing in its process's memory and none of whose
\* file operations fails, returns the start time first persisted for the id
C3_StartTimeStable ==
  \A p \in Procs :
    (/\ sess[p].pc = "done"
     /\ sess[p].after
     /\ sess[p].src # "cache"
     /\ ~sess[p].ioFailed)
    => sess[p].result = sessFirst[sess[p].file]

\* C10: for every session id, the file getSessionStartTime works on lies
\* directly in SESSION_DIR and its name is the ".json" suffix after
\* characters of [a-zA-Z0-9-_] only
C10_Sanitization ==
  probe.pc = "out" =>
    /\ InSessionDir(probe.file)
    /\ LET name == probe.file[Len(probe.file)]
       IN /\ name[Len(name)] = ".json"
          /\ \A i \in 1..(Len(name) - 1) : name[i] \in AllowedChars

C10_Witness ==
  /\ probe.pc = "out"
  /\ probe.sessionId = Traversal
  /\ probe.safe = <<"e", "t", "c", "p", "a", "s", "s", "w", "d">>
  /\ InSessionDir(probe.file)

====
